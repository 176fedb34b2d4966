-------------------------------- MODULE KvApi --------------------------------
(***************************************************************************)
(* The key-value workload interface of runner/src/ioapi.rs: the calls the  *)
(* runner may issue to a client process and the responses it may read      *)
(* back.  Keys are strings compared lexicographically in the code; only    *)
(* their order matters, so they are naturals here.  Values are opaque.     *)
(* Null stands for the None of an Option<String>.                          *)
(***************************************************************************)
EXTENDS Naturals, Sequences

CONSTANTS Keys, Values, Null

ASSUME KeysAssumption == Keys \subseteq Nat
ASSUME NullAssumption == Null \notin Values

OptValues == Values \cup {Null}

(***************************************************************************)
(* A client process never sees two calls at once, so a call needs no       *)
(* identity beyond its contents.                                           *)
(***************************************************************************)
KvCall ==
    [op : {"Put", "Swap"}, key : Keys, value : Values]
      \cup [op : {"Get", "Delete"}, key : Keys]
      \cup [op : {"Scan"}, key_start : Keys, key_end : Keys]

(***************************************************************************)
(* Nothing ties a response to the call it answers: the client process may  *)
(* print any well-formed line.  A Put or Delete response carries whether   *)
(* the key was found, a Swap response the value it replaced, and a Scan    *)
(* response its entries in the order they were printed.                    *)
(***************************************************************************)
Entry == [key : Keys, value : Values]

KvResp ==
    [op : {"Put", "Delete"}, key : Keys, found : BOOLEAN]
      \cup [op : {"Swap", "Get"}, key : Keys, value : OptValues]
      \cup [op : {"Scan"}, key_start : Keys, key_end : Keys, entries : Seq(Entry)]
      \cup [op : {"Stop"}]

(***************************************************************************)
(* The update a call makes, as the set of at most one key and new value:   *)
(* the Option<(String, Option<String>)> of KvCall::update_info.            *)
(***************************************************************************)
Update == [key : Keys, value : OptValues]

update_info(call) ==
    { u \in Update : /\ call.op \in {"Put", "Swap", "Delete"}
                     /\ u.key = call.key
                     /\ u.value = IF call.op = "Delete" THEN Null ELSE call.value }
==============================================================================
