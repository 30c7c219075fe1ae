----------------------------- MODULE ConfigFlow -----------------------------
(***************************************************************************)
(* The setup and reconfiguration dialogs (config_flow.py), several of them *)
(* open at once.  A dialog checks what was submitted against the entries   *)
(* there are, probes the machine in an executor thread, and only then      *)
(* creates or changes an entry.                                            *)
(*                                                                         *)
(* An endpoint stands for the normalised host, port and slave, of which    *)
(* the unique id is made.                                                  *)
(***************************************************************************)
EXTENDS FiniteSets

CONSTANTS
  Flows, Entries, Endpoints,
  None

ASSUME ConfigFlowAssumption == None \notin Endpoints /\ None \notin Entries

VARIABLES
  unique_id,     \* of each entry, None where there is no such entry
  used,          \* entry ids are never given twice
  stage,         \* "closed", "form" or "probing"
  target,        \* the entry a flow reconfigures, None for a first set-up
  submitted,     \* what its form holds
  flow_id,       \* the unique id it has claimed
  reachable,     \* endpoints with a machine that answers
  \* history, for the properties only
  reached,       \* endpoints that have answered a probe
  overlapped     \* a reconfiguration and another dialog have probed one endpoint at once

history == << reached, overlapped >>
vars == << unique_id, used, stage, target, submitted, flow_id, reachable, history >>

Init == /\ unique_id = [e \in Entries |-> None] /\ used = {}
        /\ stage = [f \in Flows |-> "closed"]
        /\ target = [f \in Flows |-> None]
        /\ submitted = [f \in Flows |-> None]
        /\ flow_id = [f \in Flows |-> None]
        /\ reachable \in SUBSET Endpoints /\ reached = {} /\ overlapped = FALSE

Exists(e) == unique_id[e] # None

\* These flows are over.
Close(closed) ==
  /\ stage' = [f \in Flows |-> IF f \in closed THEN "closed" ELSE stage[f]]
  /\ target' = [f \in Flows |-> IF f \in closed THEN None ELSE target[f]]
  /\ submitted' = [f \in Flows |-> IF f \in closed THEN None ELSE submitted[f]]
  /\ flow_id' = [f \in Flows |-> IF f \in closed THEN None ELSE flow_id[f]]

Open(f, e) ==
  /\ stage[f] = "closed" /\ (e # None => Exists(e))
  /\ stage' = [stage EXCEPT ![f] = "form"]
  /\ target' = [target EXCEPT ![f] = e]
  /\ UNCHANGED << unique_id, used, submitted, flow_id, reachable, history >>

Probe(f, p) ==
  /\ stage' = [stage EXCEPT ![f] = "probing"]
  /\ submitted' = [submitted EXCEPT ![f] = p]
  /\ overlapped' = (overlapped \/ \E g \in Flows \ {f} :
                      /\ stage[g] = "probing" /\ submitted[g] = p
                      /\ target[f] # None \/ target[g] # None)
  /\ UNCHANGED << target, reached >>

\* Mutant: no unique id is set.
SubmitUser_anonymous(f, p) ==
  /\ stage[f] = "form" /\ target[f] = None
  /\ Probe(f, p)
  /\ UNCHANGED << flow_id, unique_id, used, reachable >>

\* Mutant: the entries there are are not looked at.
SubmitUser_unchecked(f, p) ==
  /\ stage[f] = "form" /\ target[f] = None
  /\ IF \E g \in Flows \ {f} : flow_id[g] = p
       THEN Close({f}) /\ UNCHANGED history
       ELSE Probe(f, p) /\ flow_id' = [flow_id EXCEPT ![f] = p]
  /\ UNCHANGED << unique_id, used, reachable >>

\* async_step_user: aborted when another flow has claimed the unique id or an entry has
\* it, otherwise claimed and probed.
SubmitUser(f, p) ==
  /\ stage[f] = "form" /\ target[f] = None
  /\ IF (\E g \in Flows \ {f} : flow_id[g] = p) \/ (\E e \in Entries : unique_id[e] = p)
       THEN Close({f}) /\ UNCHANGED history
       ELSE Probe(f, p) /\ flow_id' = [flow_id EXCEPT ![f] = p]
  /\ UNCHANGED << unique_id, used, reachable >>

\* async_step_reconfigure: aborted when another entry has the new unique id.
SubmitReconfigure(f, p) ==
  /\ stage[f] = "form" /\ target[f] # None
  /\ IF \E e \in Entries \ {target[f]} : unique_id[e] = p
       THEN Close({f}) /\ UNCHANGED history
       ELSE Probe(f, p) /\ UNCHANGED flow_id
  /\ UNCHANGED << unique_id, used, reachable >>

\* The form is shown again, with what was submitted.
ProbeFails(f) ==
  /\ stage[f] = "probing"
  /\ stage' = [stage EXCEPT ![f] = "form"]
  /\ UNCHANGED << unique_id, used, target, submitted, flow_id, reachable, history >>

\* Mutant: the outcome of the probe is ignored.
ProbeAnswers_ignored(f) == stage[f] = "probing" /\ UNCHANGED history

\* The state register of the machine was read.
ProbeAnswers(f) ==
  /\ stage[f] = "probing" /\ submitted[f] \in reachable
  /\ reached' = reached \cup {submitted[f]}
  /\ UNCHANGED overlapped

\* Home Assistant adds the entry: other flows with its unique id are aborted, and an
\* entry that has this unique id by now is removed, with the flows that belong to it.
CreateEntry(f) ==
  /\ target[f] = None
  /\ ProbeAnswers(f)
  /\ \E new \in Entries \ used :
       LET replaced == {e \in Entries : flow_id[f] # None /\ unique_id[e] = flow_id[f]}
       IN /\ unique_id' = [e \in Entries |-> IF e = new THEN submitted[f]
                                             ELSE IF e \in replaced THEN None ELSE unique_id[e]]
          /\ used' = used \cup {new}
          /\ Close({f} \cup {g \in Flows : \/ flow_id[g] # None /\ flow_id[g] = flow_id[f]
                                           \/ target[g] \in replaced})
  /\ UNCHANGED reachable

\* async_update_reload_and_abort: the entry keeps its id and gets the new unique id.
UpdateEntry(f) ==
  /\ target[f] # None
  /\ ProbeAnswers(f)
  /\ unique_id' = [unique_id EXCEPT ![target[f]] = submitted[f]]
  /\ Close({f})
  /\ UNCHANGED << used, reachable >>

\* The user deletes an entry; its flows go with it.
RemoveEntry(e) ==
  /\ Exists(e)
  /\ unique_id' = [unique_id EXCEPT ![e] = None]
  /\ Close({f \in Flows : target[f] = e})
  /\ UNCHANGED << used, reachable, history >>

\* The user closes a dialog.
Cancel(f) == /\ stage[f] = "form"
             /\ Close({f})
             /\ UNCHANGED << unique_id, used, reachable, history >>

\* A machine is switched on or off.
MachineChanges == /\ \E p \in Endpoints : \/ reachable' = reachable \cup {p}
                                          \/ reachable' = reachable \ {p}
                  /\ UNCHANGED << unique_id, used, stage, target, submitted, flow_id, history >>

Next ==
  \/ \E f \in Flows :
       \/ \E e \in Entries \cup {None} : Open(f, e)
       \/ \E p \in Endpoints : SubmitUser(f, p) \/ SubmitReconfigure(f, p)
       \/ ProbeFails(f) \/ CreateEntry(f) \/ UpdateEntry(f) \/ Cancel(f)
  \/ \E e \in Entries : RemoveEntry(e)
  \/ MachineChanges

Spec == Init /\ [][Next]_vars

-----------------------------------------------------------------------------
\* No two entries poll the same machine, however many dialogs were open at once: the check
\* of a reconfiguration is "to catch pointing two entries at the same machine"
\* (config_flow.py:145-146).  The check is made before the probe, so the one thing that
\* must not happen is that a second dialog probes the same endpoint meanwhile.
UniqueEndpoints ==
  ~ overlapped =>
    \A d, e \in Entries : Exists(d) /\ unique_id[d] = unique_id[e] => d = e

\* With the same exception, neither setting up an entry nor changing an address takes
\* another entry away, and with it its history (config_flow.py:136 "without losing entity
\* history").
EntriesAreKept ==
  [][\A e \in Entries : ~ overlapped /\ Exists(e) /\ ~ Exists(e)' => RemoveEntry(e)]_vars

\* Every entry points to an endpoint where a machine has answered, whatever was tried in
\* its form before (config_flow.py:80-83, 122-128, 159-164).
EveryEntryWasReached == \A e \in Entries : Exists(e) => unique_id[e] \in reached
=============================================================================
