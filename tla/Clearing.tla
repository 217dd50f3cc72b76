------------------------------ MODULE Clearing ------------------------------
(***************************************************************************)
(* What settlement promises, without tasks, RTGS or netting: an entry      *)
(* waits in the pool of its zone, is collected by one session, and is      *)
(* settled at most once, while that session clears; a session that is      *)
(* completed has settled everything it collected, and a closed session     *)
(* settles nothing more.  An entry that a failed session left unsettled    *)
(* may be collected again: this specification leaves that open.            *)
(*                                                                         *)
(* The detailed specification is Settlement, which implements this one.    *)
(***************************************************************************)
EXTENDS Naturals, Sequences

CONSTANT Zone

VARIABLES
  entries,     \* sequence of [zone, session (0: in the pool), settled]
  sessions     \* sequence of [zone, state]
vars == <<entries, sessions>>

Init == entries = <<>> /\ sessions = <<>>

Post(zone) ==
  /\ entries' = Append(entries, [zone |-> zone, session |-> 0, settled |-> FALSE])
  /\ UNCHANGED sessions

Open(zone) ==
  /\ sessions' = Append(sessions, [zone |-> zone, state |-> "open"])
  /\ UNCHANGED entries

(* The session takes the whole pool of its zone, and perhaps `again` some  *)
(* of what failed sessions left unsettled                                  *)
Collectable(e, s) ==
  entries[e].zone = sessions[s].zone /\ ~ entries[e].settled

LeftUnsettled(s) ==
  {e \in DOMAIN entries : /\ Collectable(e, s)
                          /\ entries[e].session \in DOMAIN sessions
                          /\ sessions[entries[e].session].state = "failed"}

Collect(s, again) ==
  /\ sessions[s].state = "open"
  /\ again \subseteq LeftUnsettled(s)
  /\ sessions' = [sessions EXCEPT ![s].state = "clearing"]
  /\ entries' = [e \in DOMAIN entries |->
                   IF Collectable(e, s) /\ (entries[e].session = 0 \/ e \in again)
                   THEN [entries[e] EXCEPT !.session = s]
                   ELSE entries[e]]

(* Some entries of the session are settled, and the session may close; it  *)
(* is completed only if none of its entries is left.                       *)
Clear(s, some, after) ==
  /\ sessions[s].state = "clearing"
  /\ \A e \in some : entries[e].session = s
  /\ after = "completed" =>
       \A e \in DOMAIN entries :
         entries[e].session = s => entries[e].settled \/ e \in some
  /\ sessions' = [sessions EXCEPT ![s].state = after]
  /\ entries' = [e \in DOMAIN entries |->
                   IF e \in some THEN [entries[e] EXCEPT !.settled = TRUE] ELSE entries[e]]

Next ==
  \/ \E zone \in Zone : Post(zone) \/ Open(zone)
  \/ \E s \in DOMAIN sessions :
       \/ \E again \in SUBSET LeftUnsettled(s) : Collect(s, again)
       \/ \E some \in SUBSET DOMAIN entries, after \in {"clearing", "completed", "failed"} :
            Clear(s, some, after)

Spec == Init /\ [][Next]_vars
=============================================================================
