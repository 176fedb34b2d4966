------------------------------ MODULE MCFuzzLin -------------------------------
(***************************************************************************)
(* Instances of FuzzLin for TLC: a service that lists the entries of a     *)
(* Scan in the order of their keys.                                        *)
(***************************************************************************)
EXTENDS FuzzLin, TLC

Ref == INSTANCE RefCli

MCServiceResp(call, st) ==
    IF call.op = "Scan"
    THEN Ref!ScanResp(call, Ref!EntriesOf(st, call.key_start..call.key_end))
    ELSE Ref!PointResp(call, st)

\* The responses the service can give to a call on some store.
MCServiceReplies(call) == { MCServiceResp(call, st) : st \in Stores }

MCSharedPool == [c \in Clients |-> Keys]

MCSymmetry == Permutations(Clients) \cup Permutations(Values)
==============================================================================
