----------------------------- MODULE MCClientProc -----------------------------
(***************************************************************************)
(* Instances of ClientProc for TLC: a call of each form of answer, and     *)
(* answers of every kind, listings of up to two entries included.          *)
(***************************************************************************)
EXTENDS ClientProc

MCCalls == {[op |-> "Put", key |-> "a", value |-> "b"], [op |-> "Get", key |-> "a"],
            [op |-> "Scan", key_start |-> "a", key_end |-> "b"]}

MCListings == UNION { [1..n -> [key : {"a", "b"}, value : {"b"}]] : n \in 0..2 }

MCAnswers(call_) ==
    CASE call_.op = "Put" -> [op : {"Put"}, key : {call_.key}, found : BOOLEAN]
      [] call_.op = "Get" -> [op : {"Get"}, key : {call_.key}, value : {"a", "b", Null}]
      [] call_.op = "Scan" -> [op : {"Scan"}, key_start : {call_.key_start},
                               key_end : {call_.key_end}, entries : MCListings]
==============================================================================
