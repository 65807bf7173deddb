------------------------------ MODULE MCSnslice ------------------------------
(* Instances of Snslice for TLC. *)
EXTENDS Snslice

Config(format, bytes, records) ==
  [format |-> format, limit_bytes |-> bytes, limit_records |-> records]

(* Each limit alone and both together, reached inside and at a record.     *)
MCConfigs ==
  {Config("ndjson", 3, 2), Config("csv", 0, 1), Config("csv", 0, 2), Config("csv", 3, 2)}

MCQuoteConfigs == {Config("csv", 0, 1)}

MCPreexisting == {{}, {1}, {2}}
=============================================================================
