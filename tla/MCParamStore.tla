---------------------------- MODULE MCParamStore ----------------------------
(* Small instances of ParamStore: three words, or two, instead of five. *)
EXTENDS ParamStore

ThreeWords == <<{"mode", "iphi"}, {"iplo", "port"}, {"size"}>>
TwoWords == <<{"mode", "iphi", "iplo"}, {"port", "size"}>>
=============================================================================
