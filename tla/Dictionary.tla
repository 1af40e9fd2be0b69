----------------------------- MODULE Dictionary -----------------------------
(***************************************************************************)
(* What a zo HashMap promises its program: a finite set of entries with at *)
(* most one per key, called one operation at a time.  RuntimeMap, the      *)
(* probing hash table of zo-runtime, implements it.                        *)
(***************************************************************************)
CONSTANTS
  Keys,      \* the keys
  Values,    \* the values
  NoValue,   \* what a call that returns no value returns
  NoCall     \* "no call is being served"

VARIABLES
  entries,   \* the entries
  call,      \* the call being served
  ret        \* what the last call returned

vars == <<entries, call, ret>>

Entry == [key : Keys, val : Values]
Calls ==
  [op : {"insert"}, key : Keys, val : Values]
    \cup [op : {"get", "contains", "remove"}, key : Keys, val : {NoValue}]

Answer(hit, val) == [hit |-> hit, val |-> val]

Init ==
  /\ entries = {}
  /\ call = NoCall
  /\ ret = Answer(FALSE, NoValue)

Ask ==
  /\ call = NoCall
  /\ call' \in Calls
  /\ ret' = Answer(FALSE, NoValue)
  /\ UNCHANGED entries

\* The entries under the key of the call, and the others.
Mine == {e \in entries : e.key = call.key}
Others == {e \in entries : e.key # call.key}

\* The call returns, and the next one may come.
Returns == call # NoCall /\ call' = NoCall

Inserted ==
  /\ Returns /\ call.op = "insert"
  /\ entries' = Others \cup {[key |-> call.key, val |-> call.val]}
  /\ ret' = Answer(Mine # {}, NoValue)

Got ==
  /\ Returns /\ call.op = "get"
  /\ \/ \E e \in Mine : ret' = Answer(TRUE, e.val)
     \/ Mine = {} /\ ret' = Answer(FALSE, NoValue)
  /\ UNCHANGED entries

Contained ==
  /\ Returns /\ call.op = "contains"
  /\ ret' = Answer(Mine # {}, NoValue)
  /\ UNCHANGED entries

Removed ==
  /\ Returns /\ call.op = "remove"
  /\ \/ \E e \in Mine : ret' = Answer(TRUE, e.val)
     \/ Mine = {} /\ ret' = Answer(FALSE, NoValue)
  /\ entries' = Others

Next == Ask \/ Inserted \/ Got \/ Contained \/ Removed

Spec == Init /\ [][Next]_vars
=============================================================================
