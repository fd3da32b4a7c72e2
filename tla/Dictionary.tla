----------------------------- MODULE Dictionary -----------------------------
(***************************************************************************)
(* What lib/libcuckoo/src/cuckoohash_map.hh promises its callers: a map    *)
(* from keys to values on which every call of every thread takes effect    *)
(* atomically, at one instant between its start and its return.  A call is *)
(* a record [kind, key, val, hp]; pending[t] is the call thread t is in,   *)
(* result[t] what its last call returned.  dict[k] is the set of values    *)
(* stored under k: empty when k is absent, and never more than one.        *)
(***************************************************************************)
EXTENDS Integers

CONSTANTS Threads, Keys, Vals, Calls, NoCall

VARIABLES dict, pending, result

dvars == <<dict, pending, result>>

Present(k) == dict[k] # {}

DictInit ==
    /\ dict \in [Keys -> {{}} \union {{v} : v \in Vals}]
    /\ pending = [t \in Threads |-> NoCall]
    /\ result = [t \in Threads |-> <<>>]

Begin(t) ==
    /\ pending[t] = NoCall
    /\ \E c \in Calls : pending' = [pending EXCEPT ![t] = c]
    /\ UNCHANGED <<dict, result>>

Effect(t, d, r) ==
    /\ dict' = d
    /\ result' = [result EXCEPT ![t] = r]
    /\ pending' = [pending EXCEPT ![t] = NoCall]

(* The one step in which a call happens.  An insert or an upsert may also  *)
(* throw, and then leaves the map alone; a rehash never changes it.        *)
Happens(t) ==
    /\ pending[t] # NoCall
    /\ LET c == pending[t]
           k == c.key
           Put == [dict EXCEPT ![k] = {c.val}]
       IN \/ c.kind = "find"     /\ \/ ~Present(k) /\ Effect(t, dict, <<"none">>)
                                    \/ \E v \in dict[k] : Effect(t, dict, <<"value", v>>)
          \/ c.kind = "contains" /\ Effect(t, dict, <<"is", Present(k)>>)
          \/ c.kind = "insert"   /\ Effect(t, IF Present(k) THEN dict ELSE Put, <<"is", ~Present(k)>>)
          \/ c.kind = "upsert"   /\ Effect(t, Put, <<>>)
          \/ c.kind = "update"   /\ Effect(t, IF Present(k) THEN Put ELSE dict, <<"is", Present(k)>>)
          \/ c.kind = "erase"    /\ Effect(t, [dict EXCEPT ![k] = {}], <<"is", Present(k)>>)
          \/ c.kind = "clear"    /\ Effect(t, [x \in Keys |-> {}], <<>>)
          \/ c.kind = "iterate"  /\ Effect(t, dict, <<"all", {<<x, v>> \in Keys \X Vals : v \in dict[x]}>>)
          \/ c.kind = "rehash"   /\ \E b \in BOOLEAN : Effect(t, dict, <<"is", b>>)
          \/ c.kind \in {"insert", "upsert", "rehash"} /\ Effect(t, dict, <<"throw">>)

DictNext == \E t \in Threads : Begin(t) \/ Happens(t)

DictSpec == DictInit /\ [][DictNext]_dvars
=============================================================================
