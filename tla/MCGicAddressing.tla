-------------------------- MODULE MCGicAddressing --------------------------
(* A chip of each version for the calls, and GICv3s whose identification   *)
(* varies: SPIs up to the last word, LPIs by their own field and by the    *)
(* identifier bits, extended ranges, and each feature.                     *)
EXTENDS GicAddressing

MCAffinityOf ==
  [c \in Cpu |-> [k \in 0 .. 3 |-> IF c = 0 THEN 16 * (k + 1) ELSE 255 - 7 * k - c]]

Features ==
  (DOMAIN TyperFlag \cup DOMAIN GicrTyperFlag \cup {"one_of_n_supported"})
    \ {"lpis_supported", "espi_supported", "virtual_lpis_supported"}

Gic600(revision) == MODEL_ID_ARM_GIC_600 \cup revision

PlainChip ==
  {[version |-> version, vlpis |-> vlpis, plain |-> TRUE, spis |-> 96, cpus |-> 8,
    lpi_field |-> 0, id_bits |-> 14, lpis |-> 8192, espis |-> 0, eppis |-> 0,
    features |-> {}, iidr |-> {}, model |-> {}] :
     version \in {"v2", "v3", "v4"}, vlpis \in BOOLEAN}

(* The identifier bits, the LPIs field and the LPIs that go together.      *)
Lpis == {[id_bits |-> 10, lpi_field |-> 0, lpis |-> 0],
         [id_bits |-> 14, lpi_field |-> 0, lpis |-> 8192],
         [id_bits |-> 16, lpi_field |-> 12, lpis |-> 8192],
         [id_bits |-> 24, lpi_field |-> 1, lpis |-> 4],
         [id_bits |-> 24, lpi_field |-> 0, lpis |-> 16777216 - 8192]}

Identified ==
  {[version |-> "v3", vlpis |-> FALSE, plain |-> FALSE, spis |-> n, cpus |-> cpus,
    lpi_field |-> l.lpi_field, id_bits |-> l.id_bits, lpis |-> l.lpis,
    espis |-> 16 * ext, eppis |-> ext, features |-> f, iidr |-> Gic600(revision),
    model |-> Gic600({})] :
     n \in {0, 32, 480, 988}, cpus \in {1, 8}, l \in Lpis, ext \in {0, 32, 64},
     f \in {Features, {}} \cup {{x} : x \in Features}, revision \in {{}, {12, 19, 23}}}

(* On a GICv2 the field of the LPIs holds the lockable SPIs.               *)
IdentifiedV2 ==
  {[version |-> "v2", vlpis |-> FALSE, plain |-> FALSE, spis |-> n, cpus |-> cpus,
    lpi_field |-> lockable, id_bits |-> 1, lpis |-> 0, espis |-> 0, eppis |-> 0,
    features |-> f, iidr |-> {}, model |-> {}] :
     n \in {0, 32, 480, 988}, cpus \in {1, 8}, lockable \in {0, 1, 31},
     f \in {{}, {"has_security_extension"}}}

MCChip == {c \in PlainChip : c.vlpis => c.version = "v4"} \cup Identified \cup IdentifiedV2
=============================================================================
