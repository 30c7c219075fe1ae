-------------------------- MODULE ConfigFlowProofs --------------------------
(***************************************************************************)
(* Proofs about ConfigFlow, for any number of dialogs, entries and         *)
(* endpoints.  A dialog checks, probes and then acts; what makes the check *)
(* still true when it acts is that whoever else could make it false is     *)
(* probing the same endpoint, and is stopped by the unique id or recorded  *)
(* in "overlapped".                                                        *)
(***************************************************************************)
EXTENDS ConfigFlow, TLAPS

TypeOK ==
  /\ unique_id \in [Entries -> Endpoints \cup {None}]
  /\ stage \in [Flows -> {"closed", "form", "probing"}]
  /\ target \in [Flows -> Entries \cup {None}]
  /\ submitted \in [Flows -> Endpoints \cup {None}]
  /\ flow_id \in [Flows -> Endpoints \cup {None}]
  /\ overlapped \in BOOLEAN

Probing(f) == stage[f] = "probing"

\* A first set-up has claimed the endpoint it probes.
ClaimInv ==
  \A f \in Flows : Probing(f) =>
    submitted[f] \in Endpoints /\ (target[f] = None => flow_id[f] = submitted[f])

\* Where a reconfiguration probes, nobody else does.
AloneInv ==
  ~ overlapped => \A f, g \in Flows :
    Probing(f) /\ Probing(g) /\ submitted[f] = submitted[g] /\ target[f] # None => f = g

\* The check made before the probe is still true: no other entry has the endpoint.
FreshInv ==
  ~ overlapped => \A f \in Flows : Probing(f) =>
    \A e \in Entries \ {target[f]} : unique_id[e] # submitted[f]

IInv == /\ TypeOK /\ ClaimInv /\ AloneInv /\ FreshInv
        /\ UniqueEndpoints /\ EveryEntryWasReached

-----------------------------------------------------------------------------
LEMMA InvInit == Init => IInv
BY ConfigFlowAssumption
   DEF Init, IInv, TypeOK, ClaimInv, AloneInv, FreshInv, Probing, UniqueEndpoints,
       EveryEntryWasReached, Exists

\* Closing dialogs leaves nothing to show of them, and the others as they were.
LEMMA CloseTyped ==
  ASSUME TypeOK, NEW closed \in SUBSET Flows, Close(closed)
  PROVE  /\ stage' \in [Flows -> {"closed", "form", "probing"}]
         /\ target' \in [Flows -> Entries \cup {None}]
         /\ submitted' \in [Flows -> Endpoints \cup {None}]
         /\ flow_id' \in [Flows -> Endpoints \cup {None}]
         /\ \A f \in Flows : Probing(f)' =>
              /\ Probing(f) /\ f \notin closed
              /\ target'[f] = target[f] /\ submitted'[f] = submitted[f]
              /\ flow_id'[f] = flow_id[f]
  BY DEF TypeOK, Close, Probing

\* Nothing is lost when dialogs are closed and entries removed.
LEMMA FewerStep ==
  ASSUME IInv, NEW closed \in SUBSET Flows, Close(closed),
         unique_id' \in [Entries -> Endpoints \cup {None}],
         \A e \in Entries : unique_id'[e] \in {unique_id[e], None},
         UNCHANGED << reached, overlapped >>
  PROVE  IInv'
<1>1. TypeOK /\ TypeOK'
  BY CloseTyped DEF IInv, TypeOK
<1>2. ClaimInv' /\ AloneInv'
  BY CloseTyped, <1>1 DEF IInv, ClaimInv, AloneInv
<1>3. FreshInv'
  <2> SUFFICES ASSUME ~ overlapped, NEW f \in Flows, Probing(f)', NEW e \in Entries \ {target'[f]}
               PROVE  unique_id'[e] # submitted'[f]
    BY DEF FreshInv
  <2>1. /\ Probing(f) /\ e \in Entries \ {target[f]}
        /\ submitted'[f] = submitted[f] /\ submitted[f] \in Endpoints
    BY CloseTyped, <1>1 DEF IInv, ClaimInv
  <2> QED BY <2>1, ConfigFlowAssumption DEF IInv, FreshInv
<1>4. UniqueEndpoints' /\ EveryEntryWasReached'
  BY <1>1 DEF IInv, UniqueEndpoints, EveryEntryWasReached, Exists
<1> QED BY <1>1, <1>2, <1>3, <1>4 DEF IInv

\* A check that found no other entry with this endpoint lets the dialog probe it.
LEMMA ProbeStep ==
  ASSUME IInv, NEW f \in Flows, NEW p \in Endpoints, Probe(f, p),
         ~ \E e \in Entries \ {target[f]} : unique_id[e] = p,
         flow_id' \in [Flows -> Endpoints \cup {None}],
         \A g \in Flows \ {f} : flow_id'[g] = flow_id[g],
         target[f] = None => flow_id'[f] = p,
         UNCHANGED unique_id
  PROVE  IInv'
<1>1. /\ stage' = [stage EXCEPT ![f] = "probing"]
      /\ submitted' = [submitted EXCEPT ![f] = p]
      /\ overlapped' = (overlapped \/ \E g \in Flows \ {f} :
                          /\ Probing(g) /\ submitted[g] = p
                          /\ target[f] # None \/ target[g] # None)
      /\ UNCHANGED << target, reached >>
  BY DEF Probe, Probing
<1>2. TypeOK /\ TypeOK'
  BY <1>1 DEF IInv, TypeOK
<1>3. \A g \in Flows : \/ g = f /\ Probing(g)' /\ submitted'[g] = p
                       \/ g # f /\ (Probing(g)' <=> Probing(g)) /\ submitted'[g] = submitted[g]
  BY <1>1, <1>2 DEF TypeOK, Probing
<1>4. ClaimInv'
  BY <1>1, <1>3 DEF IInv, ClaimInv
<1>5. ~ overlapped' => ~ overlapped
  BY <1>1
<1>6. AloneInv'
  <2> SUFFICES ASSUME ~ overlapped', NEW g \in Flows, NEW h \in Flows, Probing(g)', Probing(h)',
                      submitted'[g] = submitted'[h], target'[g] # None
               PROVE  g = h
    BY DEF AloneInv
  <2>1. CASE g # f /\ h # f
    BY <1>1, <1>3, <1>5, <2>1 DEF IInv, AloneInv
  <2>2. CASE g = f /\ h # f
    BY <1>1, <1>3, <2>2
  <2>3. CASE g # f /\ h = f
    BY <1>1, <1>3, <2>3
  <2> QED BY <2>1, <2>2, <2>3
<1>7. FreshInv'
  BY <1>1, <1>3, <1>5 DEF IInv, FreshInv
<1>8. UniqueEndpoints' /\ EveryEntryWasReached'
  BY <1>1, <1>5 DEF IInv, UniqueEndpoints, EveryEntryWasReached, Exists
<1> QED BY <1>2, <1>4, <1>6, <1>7, <1>8 DEF IInv

\* A dialog whose probe was answered gives one entry its endpoint.  It is no other
\* entry's, and nobody else is probing it.
LEMMA AnsweredStep ==
  ASSUME IInv, NEW f \in Flows, ProbeAnswers(f), NEW closed \in SUBSET Flows, Close(closed),
         f \in closed,
         NEW e \in Entries, target[f] # None => target[f] = e,
         unique_id' \in [Entries -> Endpoints \cup {None}],
         unique_id'[e] = submitted[f],
         \A d \in Entries \ {e} : unique_id'[d] \in {unique_id[d], None},
         target[f] = None => \A g \in Flows : flow_id[g] = flow_id[f] => g \in closed
  PROVE  IInv'
<1>1. /\ Probing(f) /\ submitted[f] \in Endpoints
      /\ reached' = reached \cup {submitted[f]} /\ overlapped' = overlapped
  BY DEF ProbeAnswers, Probing, IInv, ClaimInv
<1>2. TypeOK /\ TypeOK'
  BY <1>1, CloseTyped DEF IInv, TypeOK
<1>3. ClaimInv' /\ AloneInv'
  BY CloseTyped, <1>1, <1>2 DEF IInv, ClaimInv, AloneInv
<1>4. FreshInv'
  <2> SUFFICES ASSUME ~ overlapped, NEW g \in Flows, Probing(g)', NEW d \in Entries \ {target'[g]}
               PROVE  unique_id'[d] # submitted'[g]
    BY <1>1 DEF FreshInv
  <2>1. /\ Probing(g) /\ g \notin closed /\ d \in Entries \ {target[g]}
        /\ submitted'[g] = submitted[g] /\ submitted[g] \in Endpoints
    BY CloseTyped, <1>2 DEF IInv, ClaimInv
  <2>2. CASE d # e
    BY <2>1, <2>2, ConfigFlowAssumption DEF IInv, FreshInv
  <2>3. CASE d = e
    <3> SUFFICES ASSUME submitted[g] = submitted[f] PROVE FALSE
      BY <2>1, <2>3
    <3>1. g # f
      BY <2>1
    <3>2. target[f] = None /\ target[g] = None
      BY <1>1, <2>1, <3>1 DEF IInv, AloneInv
    <3>3. flow_id[g] = flow_id[f]
      BY <1>1, <2>1, <3>2 DEF IInv, ClaimInv
    <3> QED BY <2>1, <3>2, <3>3
  <2> QED BY <2>2, <2>3
<1>5. ~ overlapped => \A d \in Entries \ {e} : unique_id[d] # submitted[f]
  BY <1>1, <1>2, ConfigFlowAssumption DEF IInv, FreshInv, TypeOK
<1>6. UniqueEndpoints'
  BY <1>1, <1>5, ConfigFlowAssumption DEF IInv, UniqueEndpoints, Exists
<1>7. EveryEntryWasReached'
  BY <1>1 DEF IInv, EveryEntryWasReached, Exists
<1> QED BY <1>2, <1>3, <1>4, <1>6, <1>7 DEF IInv

-----------------------------------------------------------------------------
LEMMA CreateEntryStep ==
  ASSUME IInv, NEW f \in Flows, CreateEntry(f)
  PROVE  /\ IInv'
         /\ ~ overlapped => \A e \in Entries : Exists(e) => Exists(e)'
<1>1. PICK new \in Entries \ used :
        LET replaced == {e \in Entries : flow_id[f] # None /\ unique_id[e] = flow_id[f]}
        IN /\ unique_id' = [e \in Entries |-> IF e = new THEN submitted[f]
                                              ELSE IF e \in replaced THEN None ELSE unique_id[e]]
           /\ Close({f} \cup {g \in Flows : \/ flow_id[g] # None /\ flow_id[g] = flow_id[f]
                                            \/ target[g] \in replaced})
  BY DEF CreateEntry
<1> DEFINE replaced == {e \in Entries : flow_id[f] # None /\ unique_id[e] = flow_id[f]}
           closed == {f} \cup {g \in Flows : \/ flow_id[g] # None /\ flow_id[g] = flow_id[f]
                                            \/ target[g] \in replaced}
<1>2. /\ target[f] = None /\ ProbeAnswers(f) /\ Probing(f)
      /\ submitted[f] \in Endpoints /\ flow_id[f] = submitted[f]
  BY DEF CreateEntry, ProbeAnswers, Probing, IInv, ClaimInv
<1>3. /\ closed \in SUBSET Flows /\ f \in closed /\ Close(closed)
      /\ \A g \in Flows : flow_id[g] = flow_id[f] => g \in closed
  BY <1>1, <1>2, ConfigFlowAssumption
<1>4. /\ unique_id' \in [Entries -> Endpoints \cup {None}]
      /\ unique_id'[new] = submitted[f]
      /\ \A d \in Entries \ {new} : unique_id'[d] = IF d \in replaced THEN None ELSE unique_id[d]
  BY <1>1, <1>2 DEF IInv, TypeOK
<1>5. IInv'
  BY <1>2, <1>3, <1>4, AnsweredStep
<1>6. ~ overlapped => replaced = {}
  BY <1>2, ConfigFlowAssumption DEF IInv, FreshInv
<1>7. ~ overlapped => \A e \in Entries : Exists(e) => Exists(e)'
  BY <1>2, <1>4, <1>6, ConfigFlowAssumption DEF Exists
<1> QED BY <1>5, <1>7

LEMMA UpdateEntryStep ==
  ASSUME IInv, NEW f \in Flows, UpdateEntry(f)
  PROVE  /\ IInv'
         /\ \A e \in Entries : Exists(e) => Exists(e)'
<1>1. /\ target[f] \in Entries /\ target[f] # None /\ ProbeAnswers(f)
      /\ submitted[f] \in Endpoints
      /\ unique_id' = [unique_id EXCEPT ![target[f]] = submitted[f]]
      /\ Close({f})
  BY DEF UpdateEntry, ProbeAnswers, Probing, IInv, ClaimInv, TypeOK
<1>2. /\ unique_id' \in [Entries -> Endpoints \cup {None}]
      /\ unique_id'[target[f]] = submitted[f]
      /\ \A d \in Entries \ {target[f]} : unique_id'[d] = unique_id[d]
  BY <1>1 DEF IInv, TypeOK
<1>3. IInv'
  BY <1>1, <1>2, AnsweredStep
<1> QED BY <1>1, <1>2, <1>3, ConfigFlowAssumption DEF Exists

LEMMA SubmitUserStep ==
  ASSUME IInv, NEW f \in Flows, NEW p \in Endpoints, SubmitUser(f, p)
  PROVE  IInv' /\ unique_id' = unique_id
<1>1. unique_id' = unique_id /\ target[f] = None
  BY DEF SubmitUser
<1>2. CASE Close({f}) /\ UNCHANGED history
  BY <1>1, <1>2, FewerStep DEF history, IInv, TypeOK
<1>3. CASE /\ ~ \E e \in Entries : unique_id[e] = p
           /\ Probe(f, p) /\ flow_id' = [flow_id EXCEPT ![f] = p]
  <2>1. /\ flow_id' \in [Flows -> Endpoints \cup {None}] /\ flow_id'[f] = p
        /\ \A g \in Flows \ {f} : flow_id'[g] = flow_id[g]
    BY <1>3 DEF IInv, TypeOK
  <2> QED BY <1>1, <1>3, <2>1, ProbeStep
<1> QED BY <1>2, <1>3 DEF SubmitUser

LEMMA SubmitReconfigureStep ==
  ASSUME IInv, NEW f \in Flows, NEW p \in Endpoints, SubmitReconfigure(f, p)
  PROVE  IInv' /\ unique_id' = unique_id
<1>1. unique_id' = unique_id /\ target[f] # None
  BY DEF SubmitReconfigure
<1>2. CASE Close({f}) /\ UNCHANGED history
  BY <1>1, <1>2, FewerStep DEF history, IInv, TypeOK
<1>3. CASE /\ ~ \E e \in Entries \ {target[f]} : unique_id[e] = p
           /\ Probe(f, p) /\ UNCHANGED flow_id
  BY <1>1, <1>3, ProbeStep DEF IInv, TypeOK
<1> QED BY <1>2, <1>3 DEF SubmitReconfigure

\* Dialogs that are opened or shown again probe nothing.
LEMMA FormStep ==
  ASSUME IInv, NEW f \in Flows,
         (\E e \in Entries \cup {None} : Open(f, e)) \/ ProbeFails(f)
  PROVE  IInv' /\ unique_id' = unique_id
<1>1. /\ stage' = [stage EXCEPT ![f] = "form"]
      /\ target' \in [Flows -> Entries \cup {None}]
      /\ \A g \in Flows \ {f} : target'[g] = target[g]
      /\ UNCHANGED << unique_id, submitted, flow_id, reached, overlapped >>
  BY DEF Open, ProbeFails, history, IInv, TypeOK
<1>2. TypeOK /\ TypeOK'
  BY <1>1 DEF IInv, TypeOK
<1>3. \A g \in Flows : Probing(g)' => g # f /\ Probing(g)
  BY <1>1, <1>2 DEF TypeOK, Probing
<1>4. ClaimInv' /\ AloneInv' /\ FreshInv'
  BY <1>1, <1>3 DEF IInv, ClaimInv, AloneInv, FreshInv
<1>5. UniqueEndpoints' /\ EveryEntryWasReached'
  BY <1>1 DEF IInv, UniqueEndpoints, EveryEntryWasReached, Exists
<1> QED BY <1>1, <1>2, <1>4, <1>5 DEF IInv

LEMMA RemoveEntryStep ==
  ASSUME IInv, NEW e \in Entries, RemoveEntry(e)
  PROVE  /\ IInv'
         /\ \A d \in Entries \ {e} : unique_id'[d] = unique_id[d]
<1>1. /\ unique_id' = [unique_id EXCEPT ![e] = None]
      /\ Close({f \in Flows : target[f] = e})
      /\ UNCHANGED << reached, overlapped >>
  BY DEF RemoveEntry, history
<1>2. /\ unique_id' \in [Entries -> Endpoints \cup {None}]
      /\ \A d \in Entries \ {e} : unique_id'[d] = unique_id[d]
      /\ \A d \in Entries : unique_id'[d] \in {unique_id[d], None}
  BY <1>1 DEF IInv, TypeOK
<1>3. IInv'
  BY <1>1, <1>2, FewerStep
<1> QED BY <1>2, <1>3

LEMMA CancelStep ==
  ASSUME IInv, NEW f \in Flows, Cancel(f)
  PROVE  IInv' /\ unique_id' = unique_id
  BY FewerStep DEF Cancel, history, IInv, TypeOK

LEMMA UnseenStep ==
  ASSUME IInv, MachineChanges \/ UNCHANGED vars
  PROVE  IInv' /\ unique_id' = unique_id
  BY DEF MachineChanges, vars, history, IInv, TypeOK, ClaimInv, AloneInv, FreshInv, Probing,
         UniqueEndpoints, EveryEntryWasReached, Exists

\* The step: the invariant is kept, and so is every entry that is not removed.
LEMMA InvStep ==
  ASSUME IInv, [Next]_vars
  PROVE  /\ IInv'
         /\ \A e \in Entries : ~ overlapped /\ Exists(e) /\ ~ Exists(e)' => RemoveEntry(e)
<1>1. CASE \E f \in Flows : CreateEntry(f)
  BY <1>1, CreateEntryStep
<1>2. CASE \E f \in Flows : UpdateEntry(f)
  BY <1>2, UpdateEntryStep
<1>3. CASE \E f \in Flows : \/ \E p \in Endpoints : SubmitUser(f, p) \/ SubmitReconfigure(f, p)
                            \/ \E e \in Entries \cup {None} : Open(f, e)
                            \/ ProbeFails(f) \/ Cancel(f)
  BY <1>3, SubmitUserStep, SubmitReconfigureStep, FormStep, CancelStep DEF Exists
<1>4. CASE \E e \in Entries : RemoveEntry(e)
  BY <1>4, RemoveEntryStep DEF Exists
<1>5. CASE MachineChanges \/ UNCHANGED vars
  BY <1>5, UnseenStep DEF Exists
<1> QED BY <1>1, <1>2, <1>3, <1>4, <1>5 DEF Next

LEMMA Invariance == Spec => []IInv
<1>1. IInv /\ [Next]_vars => IInv'
  BY InvStep
<1> QED BY <1>1, InvInit, PTL DEF Spec

-----------------------------------------------------------------------------
\* No two entries have one endpoint, unless a reconfiguration and another dialog have
\* probed one endpoint at once (config_flow.py:124-126, 145-157).
THEOREM EndpointsAreUnique == Spec => []UniqueEndpoints
<1>1. IInv => UniqueEndpoints
  BY DEF IInv
<1> QED BY <1>1, Invariance, PTL

\* No dialog makes an entry of an endpoint that never answered (config_flow.py:80-83).
THEOREM EntriesWereReached == Spec => []EveryEntryWasReached
<1>1. IInv => EveryEntryWasReached
  BY DEF IInv
<1> QED BY <1>1, Invariance, PTL

\* With the exception of the first theorem, only the user takes an entry away: no dialog
\* replaces one (config_flow.py:135-136).
THEOREM OnlyTheUserRemoves == Spec => EntriesAreKept
<1>1. IInv /\ [Next]_vars =>
        [\A e \in Entries : ~ overlapped /\ Exists(e) /\ ~ Exists(e)' => RemoveEntry(e)]_vars
  BY InvStep
<1> QED BY <1>1, Invariance, PTL DEF Spec, EntriesAreKept
=============================================================================
