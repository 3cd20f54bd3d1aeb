---------------------------- MODULE SessionStore ----------------------------
(***************************************************************************)
(* The hot cache of sessions: session_store.rs over the gateway's remote   *)
(* storage, one entry per contextId, dropped when its TTL lapses.  The     *)
(* storage itself is external; each operation is one call to it.  An       *)
(* operation with `failed' TRUE is one whose storage call returned an      *)
(* error: a load answers as for a missing entry, a write changes nothing,  *)
(* and the caller is not told.                                             *)
(***************************************************************************)
EXTENDS Integers

CONSTANTS Contexts

VARIABLE store   \* contextId -> SessionEntry, or NoEntry

NoEntry == [session |-> 0, pending |-> {}]

Present(c) == store[c] # NoEntry

StoreInit == store = [c \in Contexts |-> NoEntry]

\* StoreMode::Always, last write wins.
Save(c, e, failed) ==
  store' = IF failed THEN store ELSE [store EXCEPT ![c] = e]

\* StoreMode::Absent, first write wins.
Create(c, e, failed) ==
  store' = IF failed \/ Present(c) THEN store ELSE [store EXCEPT ![c] = e]

Load(c, failed) == IF failed THEN NoEntry ELSE store[c]

\* The TTL of an entry lapses.
Expire(c) ==
  /\ Present(c)
  /\ store' = [store EXCEPT ![c] = NoEntry]
=============================================================================
