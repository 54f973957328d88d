----------------------------- MODULE StoreProofs ----------------------------
(***************************************************************************)
(* The transfer store's invariants, proved for every set of jobs, every    *)
(* bound and every sequence of calls.                                      *)
(*                                                                         *)
(* Every part of StoreInv rests on the type invariant.  OneLiveChild also  *)
(* needs LineageIsSound: a row that is not there has no link that a new    *)
(* retry would overwrite.  The action properties need OutboxMatchesRow: a  *)
(* row with an undelivered outcome is terminal, so nobody moves it.        *)
(*                                                                         *)
(* The library's properties are proved for every set of entries, deletes   *)
(* and deliverers.  LibraryInv follows each delete: its intents and what   *)
(* lies in the trash are those its step allows, and a copy in memory of    *)
(* the current revision is the library (CopyIsCurrent), unless memory once *)
(* took over the revision of the store without its rows.  RowKeepsFiles    *)
(* also needs FilesInv: a payload whose row is there, or about to be       *)
(* written, has an intent, a marker or a delete that will put it back.     *)
(***************************************************************************)
EXTENDS TransferStore, LibraryStore, TLAPS

StoreInv ==
    /\ StoreTypeOK
    /\ OutboxMatchesRow
    /\ DismissedIsDelivered
    /\ LineageIsSound
    /\ OneLiveChild
    /\ OneDigestPerIdentity

(* Which states are terminal: all the proofs need of the graph. *)
LEMMA StateFacts ==
    /\ "absent" \notin CommitStates /\ "absent" \notin Terminal /\ "none" \notin Terminal
    /\ \A s \in CommitStates : s \notin Terminal
    /\ "queued" \in CommitStates /\ "failed_retryable" \in Terminal
  BY StoreConstants DEF NonTerminal, States, Parked, Working, Terminal, Failures

(* A fresh row fits the columns. *)
LEMMA NewRowType ==
    ASSUME NEW id \in Identities, NEW d \in Digests
    PROVE  NewRow(id, d) \in Row
  BY StoreConstants DEF NewRow, Row, RunIntents

(* So does the ledger of a job nothing is known about. *)
LEMMA NoEvidenceType == [f \in Files |-> NoEvidence] \in [Files -> Evidence]
  BY StoreConstants DEF NoEvidence, Evidence, LedgerStatuses

(* What the type invariant says of one job. *)
LEMMA RowFacts ==
    ASSUME StoreTypeOK, NEW j \in JobIds
    PROVE  /\ rows[j] \in Row \cup {NoRow}
           /\ Present(j) => rows[j] \in Row
           /\ IsTerminal(j) => Present(j)
           /\ ~Present(j) => rows[j] = NoRow /\ ~rows[j].dismissed
<1>1. rows[j] \in Row \cup {NoRow}
  BY DEF StoreTypeOK
<1>2. rows[j] \in Row => rows[j].state \in CommitStates \cup Terminal
  BY DEF Row
<1>3. NoRow.state = "absent" /\ NoRow.dismissed = FALSE
  BY DEF NoRow
<1> QED BY <1>1, <1>2, <1>3, StateFacts DEF Present, IsTerminal

(* The empty store satisfies the invariant: no row, no outcome, no link. *)
THEOREM StoreInitInv == StoreInit => StoreInv
<1> SUFFICES ASSUME StoreInit PROVE StoreInv
  OBVIOUS
<1>1. StoreTypeOK
  BY NoEvidenceType DEF StoreInit, StoreTypeOK
<1>2. \A j \in JobIds : rows[j] = NoRow /\ outbox[j] = NoOutcome /\ lineage[j] = NoLink
  BY DEF StoreInit
<1>3. \A j \in JobIds : ~Present(j) /\ ~IsTerminal(j) /\ ~rows[j].dismissed
  BY <1>2, StateFacts DEF NoRow, Present, IsTerminal
<1>4. OutboxMatchesRow /\ DismissedIsDelivered /\ LineageIsSound
  BY <1>2, <1>3 DEF OutboxMatchesRow, DismissedIsDelivered, LineageIsSound
<1>5. OneLiveChild /\ OneDigestPerIdentity
  BY <1>2, <1>3 DEF OneLiveChild, OneDigestPerIdentity
<1> QED BY <1>1, <1>4, <1>5 DEF StoreInv

(* Type correctness of each method: what it writes fits the columns. *)
THEOREM StoreStepType ==
    ASSUME StoreTypeOK, StoreNext
    PROVE  StoreTypeOK'
<1>1. ASSUME NEW j \in JobIds, NEW id \in Identities, NEW d \in Digests, create_job(j, id, d)
      PROVE  StoreTypeOK'
  BY <1>1, NewRowType, NoEvidenceType DEF create_job, StoreTypeOK
<1>2. ASSUME NEW j \in JobIds, NEW v \in 1..MaxVersion, NEW to \in CommitStates,
             transition_job(j, v, to)
      PROVE  StoreTypeOK'
  <2>1. rows[j] \in Row
    BY <1>2, RowFacts DEF transition_job, Live
  <2>2. v + 1 \in 1..MaxVersion
    BY <1>2, StoreConstants DEF transition_job, NextVersionFits
  <2>3. [rows[j] EXCEPT !.state = to, !.version = v + 1] \in Row
    BY <1>2, <2>1, <2>2 DEF Row
  <2> QED BY <1>2, <2>3 DEF transition_job, StoreTypeOK
<1>3. ASSUME NEW j \in JobIds, NEW v \in 1..MaxVersion, NEW d \in RunIntents,
             set_desired_run_state(j, d, v)
      PROVE  StoreTypeOK'
  <2>1. rows[j] \in Row
    BY <1>3, RowFacts DEF set_desired_run_state
  <2>2. [rows[j] EXCEPT !.desired = d] \in Row
    BY <1>3, <2>1 DEF Row
  <2> QED BY <1>3, <2>2 DEF set_desired_run_state, StoreTypeOK
<1>4. ASSUME NEW j \in JobIds, NEW f \in Files, NEW s \in LedgerStatuses,
             NEW b \in 0..Size, NEW sha \in Shas \cup {"none"},
             update_file_ledger(j, f, s, b, sha)
      PROVE  StoreTypeOK'
  <2>1. [status |-> s, bytes |-> b, sha |-> sha] \in Evidence
    BY <1>4 DEF Evidence
  <2>2. ledger \in [JobIds -> [Files -> Evidence]]
    BY DEF StoreTypeOK
  <2>3. ledger' \in [JobIds -> [Files -> Evidence]]
    BY <1>4, <2>1, <2>2 DEF update_file_ledger
  <2> QED BY <1>4, <2>3 DEF update_file_ledger, StoreTypeOK
<1>5. ASSUME NEW j \in JobIds, NEW o \in Terminal, complete_job(j, o)
      PROVE  StoreTypeOK'
  <2>1. rows[j] \in Row /\ rows[j].version \in 1..MaxVersion
    BY <1>5, RowFacts DEF complete_job, Live, Row
  <2>2. rows[j].version + 1 \in 1..MaxVersion
    BY <1>5, <2>1, StoreConstants DEF complete_job, NextVersionFits
  <2>3. [rows[j] EXCEPT !.state = o, !.version = rows[j].version + 1] \in Row
    BY <2>1, <2>2 DEF Row
  <2>4. insert_outbox_row(o, rows[j].version + 1) \in Completion
    BY <2>2 DEF insert_outbox_row, Completion
  <2> QED BY <1>5, <2>3, <2>4 DEF complete_job, StoreTypeOK
<1>6. ASSUME NEW j \in JobIds, acknowledge_completion(j)
      PROVE  StoreTypeOK'
  <2>1. outbox[j] \in Completion
    BY <1>6 DEF acknowledge_completion, StoreTypeOK, NoOutcome
  <2>2. [outbox[j] EXCEPT !.acked = TRUE] \in Completion
    BY <2>1 DEF Completion
  <2> QED BY <1>6, <2>2 DEF acknowledge_completion, StoreTypeOK
<1>7. ASSUME NEW p \in JobIds, NEW c \in JobIds, spawn_retry_job(p, c)
      PROVE  StoreTypeOK'
  <2>1. rows[p] \in Row
    BY <1>7, RowFacts DEF spawn_retry_job, Present
  <2>2. NewRow(rows[p].identity, rows[p].digest) \in Row
    BY <2>1, NewRowType DEF Row
  <2>3. rows' \in [JobIds -> Row \cup {NoRow}] /\ ledger' \in [JobIds -> [Files -> Evidence]]
    BY <1>7, <2>2 DEF spawn_retry_job, StoreTypeOK
  <2>4. lineage \in [JobIds -> Link \cup {NoLink}]
    BY DEF StoreTypeOK
  <2>5. lineage' \in [JobIds -> Link \cup {NoLink}]
    <3>1. CASE lineage' = [lineage EXCEPT ![c] = [parent |-> p, attempt |-> 1]]
      <4>1. [parent |-> p, attempt |-> 1] \in Link
        BY StoreConstants DEF Link
      <4> QED BY <3>1, <4>1, <2>4
    <3>2. ASSUME NEW latest \in JobIds, LatestChild(p, latest),
                 lineage[latest].attempt < MaxAttempt,
                 lineage' = [lineage EXCEPT ![c] =
                                [parent |-> p, attempt |-> lineage[latest].attempt + 1]]
          PROVE  lineage' \in [JobIds -> Link \cup {NoLink}]
      <4>1. lineage[latest].attempt \in 0..MaxAttempt
        BY <2>4, StoreConstants DEF Link, NoLink
      <4>2. [parent |-> p, attempt |-> lineage[latest].attempt + 1] \in Link
        BY <3>2, <4>1, StoreConstants DEF Link
      <4> QED BY <3>2, <4>2, <2>4
    <3> QED BY <1>7, <3>1, <3>2 DEF spawn_retry_job
  <2> QED BY <1>7, <2>3, <2>5 DEF spawn_retry_job, StoreTypeOK
<1>8. ASSUME NEW j \in JobIds, dismiss_job(j)
      PROVE  StoreTypeOK'
  <2>1. rows[j] \in Row
    BY <1>8, RowFacts DEF dismiss_job, Dismissable
  <2>2. [rows[j] EXCEPT !.dismissed = TRUE] \in Row
    BY <2>1 DEF Row
  <2> QED BY <1>8, <2>2 DEF dismiss_job, StoreTypeOK
<1>9. ASSUME NEW j \in JobIds, delete_job(j)
      PROVE  StoreTypeOK'
  BY <1>9, NoEvidenceType DEF delete_job, StoreTypeOK
<1>10. ASSUME NEW old \in JobIds, NEW new \in JobIds, retarget_job(old, new)
       PROVE  StoreTypeOK'
  <2>1. rows[old] \in Row
    BY <1>10, RowFacts DEF retarget_job
  <2>2. rows[old].version + 1 \in 1..MaxVersion
    BY <1>10, <2>1, StoreConstants DEF retarget_job, NextVersionFits, Row
  <2>3. [rows[old] EXCEPT !.state = "queued", !.dismissed = FALSE,
                          !.version = rows[old].version + 1] \in Row
    BY <2>1, <2>2, StoreConstants DEF Row
  <2>4. rows' \in [JobIds -> Row \cup {NoRow}]
    BY <1>10, <2>3 DEF retarget_job, StoreTypeOK
  <2>5. ledger' \in [JobIds -> [Files -> Evidence]]
    BY <1>10, NoEvidenceType DEF retarget_job, StoreTypeOK
  <2> QED BY <1>10, <2>4, <2>5 DEF retarget_job, StoreTypeOK
<1> QED
  BY <1>1, <1>2, <1>3, <1>4, <1>5, <1>6, <1>7, <1>8, <1>9, <1>10 DEF StoreNext

(* The effect lemmas: what each method does to the row, the outcome, the link
   and the evidence of every job, which is all the other invariants need of a
   step.  transition_job moves one live row to another non-terminal state. *)
LEMMA TransitionEffect ==
    ASSUME StoreTypeOK, NEW j \in JobIds, NEW v \in 1..MaxVersion, NEW to \in CommitStates,
           transition_job(j, v, to)
    PROVE  /\ \A k \in JobIds : k # j => rows'[k] = rows[k]
           /\ Present(j)' /\ ~IsTerminal(j)' /\ rows'[j].dismissed = rows[j].dismissed
           /\ rows'[j].identity = rows[j].identity /\ rows'[j].digest = rows[j].digest
           /\ Present(j) /\ ~IsTerminal(j)
           /\ outbox' = outbox /\ lineage' = lineage /\ ledger' = ledger
<1>1. rows[j] \in Row
  BY RowFacts DEF transition_job, Live
<1> QED BY <1>1, StateFacts DEF transition_job, Live, Present, IsTerminal, StoreTypeOK, Row

(* create_job fills an empty row with an identity nobody else has. *)
LEMMA CreateEffect ==
    ASSUME StoreTypeOK, NEW j \in JobIds, NEW id \in Identities, NEW d \in Digests,
           create_job(j, id, d)
    PROVE  /\ \A k \in JobIds : k # j => rows'[k] = rows[k] /\ ledger'[k] = ledger[k]
           /\ ~Present(j) /\ IdentityIsFree(id)
           /\ Present(j)' /\ ~IsTerminal(j)' /\ ~rows'[j].dismissed
           /\ rows'[j].identity = id
           /\ outbox' = outbox /\ lineage' = lineage
<1>1. rows'[j] = NewRow(id, d)
  BY DEF create_job, StoreTypeOK
<1> QED BY <1>1, StateFacts DEF create_job, NewRow, Present, IsTerminal, StoreTypeOK

(* delete_job empties one row and everything that hangs off it. *)
LEMMA DeleteEffect ==
    ASSUME StoreTypeOK, NEW j \in JobIds, delete_job(j)
    PROVE  /\ \A k \in JobIds : k # j => /\ rows'[k] = rows[k] /\ ledger'[k] = ledger[k]
                                         /\ outbox'[k] = outbox[k] /\ lineage'[k] = lineage[k]
           /\ rows'[j] = NoRow /\ outbox'[j] = NoOutcome /\ lineage'[j] = NoLink
           /\ ~Present(j)' /\ ~IsTerminal(j)' /\ ~rows'[j].dismissed
           /\ Delivered(j) /\ HasNoChildren(j)
<1>1. rows'[j] = NoRow
  BY DEF delete_job, StoreTypeOK
<1> QED BY <1>1, StateFacts DEF delete_job, NoRow, Present, IsTerminal, StoreTypeOK

(* set_desired_run_state moves nothing but the intent. *)
LEMMA IntentEffect ==
    ASSUME StoreTypeOK, NEW j \in JobIds, NEW v \in 1..MaxVersion, NEW d \in RunIntents,
           set_desired_run_state(j, d, v)
    PROVE  /\ \A k \in JobIds : k # j => rows'[k] = rows[k]
           /\ rows'[j].state = rows[j].state /\ rows'[j].version = rows[j].version
           /\ rows'[j].dismissed = rows[j].dismissed
           /\ rows'[j].identity = rows[j].identity /\ rows'[j].digest = rows[j].digest
           /\ outbox' = outbox /\ lineage' = lineage /\ ledger' = ledger
<1>1. rows[j] \in Row
  BY RowFacts DEF set_desired_run_state
<1> QED BY <1>1 DEF set_desired_run_state, StoreTypeOK, Row

(* complete_job ends one live row and records the same outcome and version. *)
LEMMA CompleteEffect ==
    ASSUME StoreTypeOK, NEW j \in JobIds, NEW o \in Terminal, complete_job(j, o)
    PROVE  /\ \A k \in JobIds : k # j => rows'[k] = rows[k] /\ outbox'[k] = outbox[k]
           /\ IsTerminal(j)' /\ rows'[j].state = o /\ rows'[j].dismissed = rows[j].dismissed
           /\ rows'[j].identity = rows[j].identity /\ rows'[j].digest = rows[j].digest
           /\ outbox'[j].outcome = o /\ outbox'[j].version = rows'[j].version
           /\ Present(j) /\ ~IsTerminal(j) /\ outbox[j] = NoOutcome
           /\ lineage' = lineage /\ ledger' = ledger
<1>1. rows[j] \in Row
  BY RowFacts DEF complete_job, Live
<1> QED BY <1>1 DEF complete_job, insert_outbox_row, Live, IsTerminal, StoreTypeOK, Row

(* acknowledge_completion keeps the outcome it marks. *)
LEMMA AcknowledgeEffect ==
    ASSUME StoreTypeOK, NEW j \in JobIds, acknowledge_completion(j)
    PROVE  /\ \A k \in JobIds : k # j => outbox'[k] = outbox[k]
           /\ outbox[j].outcome # "none" /\ ~outbox[j].acked /\ outbox[j] # NoOutcome
           /\ outbox'[j].outcome = outbox[j].outcome
           /\ outbox'[j].version = outbox[j].version
           /\ outbox'[j].acked
           /\ rows' = rows /\ lineage' = lineage /\ ledger' = ledger
<1>1. outbox[j] \in Completion
  BY DEF acknowledge_completion, StoreTypeOK, NoOutcome
<1> QED BY <1>1 DEF acknowledge_completion, StoreTypeOK, Completion, NoOutcome

(* spawn_retry_job fills an empty row from its parent's. *)
LEMMA SpawnEffect ==
    ASSUME StoreTypeOK, NEW p \in JobIds, NEW c \in JobIds, spawn_retry_job(p, c)
    PROVE  /\ p # c
           /\ \A k \in JobIds : k # c => /\ rows'[k] = rows[k] /\ lineage'[k] = lineage[k]
                                         /\ ledger'[k] = ledger[k]
           /\ Present(c)' /\ ~IsTerminal(c)' /\ ~rows'[c].dismissed
           /\ rows'[c].identity = rows[p].identity /\ rows'[c].digest = rows[p].digest
           /\ lineage'[c].parent = p
           /\ rows[p].state = "failed_retryable" /\ outbox[p].acked
           /\ ~Present(c) /\ NoLiveChild(p)
           /\ outbox' = outbox
<1>1. p # c
  BY DEF spawn_retry_job, Present
<1>2. lineage'[c].parent = p /\ \A k \in JobIds : k # c => lineage'[k] = lineage[k]
  BY DEF spawn_retry_job, StoreTypeOK
<1>3. rows'[c] = NewRow(rows[p].identity, rows[p].digest)
  BY DEF spawn_retry_job, StoreTypeOK
<1>4. Present(c)' /\ ~IsTerminal(c)' /\ ~rows'[c].dismissed
  BY <1>3, StateFacts DEF NewRow, Present, IsTerminal
<1> QED BY <1>1, <1>2, <1>3, <1>4 DEF spawn_retry_job, NewRow, StoreTypeOK

(* dismiss_job marks one delivered row. *)
LEMMA DismissEffect ==
    ASSUME StoreTypeOK, NEW j \in JobIds, dismiss_job(j)
    PROVE  /\ \A k \in JobIds : k # j => rows'[k] = rows[k]
           /\ rows'[j].state = rows[j].state /\ rows'[j].version = rows[j].version
           /\ rows'[j].identity = rows[j].identity /\ rows'[j].digest = rows[j].digest
           /\ IsTerminal(j) /\ outbox[j].acked
           /\ outbox' = outbox /\ lineage' = lineage /\ ledger' = ledger
<1>1. rows[j] \in Row
  BY RowFacts DEF dismiss_job, Dismissable
<1> QED BY <1>1 DEF dismiss_job, Dismissable, StoreTypeOK, Row

(* retarget_job moves one row to a free id, and its outcome is dropped. *)
LEMMA RetargetEffect ==
    ASSUME StoreTypeOK, NEW old \in JobIds, NEW new \in JobIds, retarget_job(old, new)
    PROVE  /\ old # new
           /\ \A k \in JobIds \ {old, new} : rows'[k] = rows[k] /\ ledger'[k] = ledger[k]
           /\ \A k \in JobIds \ {old} : outbox'[k] = outbox[k]
           /\ rows'[old] = NoRow /\ outbox'[old] = NoOutcome
           /\ ~Present(old)' /\ ~IsTerminal(old)' /\ ~rows'[old].dismissed
           /\ Present(new)' /\ ~IsTerminal(new)' /\ ~rows'[new].dismissed
           /\ rows'[new].identity = rows[old].identity
           /\ rows'[new].digest = rows[old].digest
           /\ Present(old) /\ ~Present(new) /\ Delivered(old)
           /\ HasNoChildren(old) /\ lineage[old] = NoLink
           /\ lineage' = lineage
<1>1. rows[old] \in Row
  BY RowFacts DEF retarget_job
<1>2. old # new
  BY DEF retarget_job
<1>3. rows'[old] = NoRow
  BY <1>2 DEF retarget_job, StoreTypeOK
<1>4. rows'[new].state = "queued" /\ ~rows'[new].dismissed
  BY <1>1, <1>2 DEF retarget_job, StoreTypeOK, Row
<1>5. ~Present(old)' /\ ~IsTerminal(old)' /\ ~rows'[old].dismissed
  BY <1>3, StateFacts DEF NoRow, Present, IsTerminal
<1>6. Present(new)' /\ ~IsTerminal(new)'
  BY <1>4, StateFacts DEF Present, IsTerminal
<1>7. rows'[new].identity = rows[old].identity /\ rows'[new].digest = rows[old].digest
  BY <1>1, <1>2 DEF retarget_job, StoreTypeOK, Row
<1> QED BY <1>2, <1>3, <1>4, <1>5, <1>6, <1>7 DEF retarget_job, StoreTypeOK

(* complete_job is the only way into a terminal state and it writes the
   outcome with it; delete_job and retarget_job take the outcome with the row. *)
LEMMA OutboxStep ==
    ASSUME StoreTypeOK, OutboxMatchesRow, StoreNext
    PROVE  OutboxMatchesRow'
<1> USE DEF OutboxMatchesRow, IsTerminal
<1>1. ASSUME NEW j \in JobIds, NEW id \in Identities, NEW d \in Digests, create_job(j, id, d)
      PROVE  OutboxMatchesRow'
  BY <1>1, CreateEffect, RowFacts
<1>2. ASSUME NEW j \in JobIds, NEW v \in 1..MaxVersion, NEW to \in CommitStates,
             transition_job(j, v, to)
      PROVE  OutboxMatchesRow'
  BY <1>2, TransitionEffect
<1>3. ASSUME NEW j \in JobIds, NEW v \in 1..MaxVersion, NEW d \in RunIntents,
             set_desired_run_state(j, d, v)
      PROVE  OutboxMatchesRow'
  BY <1>3, IntentEffect
<1>4. ASSUME NEW j \in JobIds, NEW f \in Files, NEW s \in LedgerStatuses,
             NEW b \in 0..Size, NEW sha \in Shas \cup {"none"},
             update_file_ledger(j, f, s, b, sha)
      PROVE  OutboxMatchesRow'
  BY <1>4 DEF update_file_ledger
<1>5. ASSUME NEW j \in JobIds, NEW o \in Terminal, complete_job(j, o)
      PROVE  OutboxMatchesRow'
  BY <1>5, CompleteEffect
<1>6. ASSUME NEW j \in JobIds, acknowledge_completion(j)
      PROVE  OutboxMatchesRow'
  BY <1>6, AcknowledgeEffect
<1>7. ASSUME NEW p \in JobIds, NEW c \in JobIds, spawn_retry_job(p, c)
      PROVE  OutboxMatchesRow'
  <2>1. outbox[c] = NoOutcome
    BY <1>7, SpawnEffect, RowFacts
  <2>2. ~IsTerminal(c)' /\ outbox' = outbox
    BY <1>7, SpawnEffect
  <2>3. \A k \in JobIds : k # c => rows'[k] = rows[k]
    BY <1>7, SpawnEffect
  <2> QED BY <2>1, <2>2, <2>3
<1>8. ASSUME NEW j \in JobIds, dismiss_job(j)
      PROVE  OutboxMatchesRow'
  BY <1>8, DismissEffect
<1>9. ASSUME NEW j \in JobIds, delete_job(j)
      PROVE  OutboxMatchesRow'
  BY <1>9, DeleteEffect
<1>10. ASSUME NEW old \in JobIds, NEW new \in JobIds, retarget_job(old, new)
       PROVE  OutboxMatchesRow'
  <2>1. outbox[new] = NoOutcome
    BY <1>10, RetargetEffect, RowFacts
  <2>2. ~IsTerminal(new)' /\ ~IsTerminal(old)' /\ outbox'[old] = NoOutcome /\ old # new
    BY <1>10, RetargetEffect
  <2>3. \A k \in JobIds \ {old, new} : rows'[k] = rows[k] /\ outbox'[k] = outbox[k]
    BY <1>10, RetargetEffect
  <2>4. outbox'[new] = NoOutcome
    BY <1>10, <2>1, RetargetEffect
  <2> QED BY <2>2, <2>3, <2>4
<1> QED
  BY <1>1, <1>2, <1>3, <1>4, <1>5, <1>6, <1>7, <1>8, <1>9, <1>10 DEF StoreNext

(* A dismissed row is terminal and delivered, and only delete_job or
   retarget_job undo either, together with the mark itself. *)
LEMMA DismissedStep ==
    ASSUME StoreTypeOK, DismissedIsDelivered, StoreNext
    PROVE  DismissedIsDelivered'
<1> USE DEF DismissedIsDelivered, IsTerminal
<1>1. ASSUME NEW j \in JobIds, NEW id \in Identities, NEW d \in Digests, create_job(j, id, d)
      PROVE  DismissedIsDelivered'
  BY <1>1, CreateEffect
<1>2. ASSUME NEW j \in JobIds, NEW v \in 1..MaxVersion, NEW to \in CommitStates,
             transition_job(j, v, to)
      PROVE  DismissedIsDelivered'
  BY <1>2, TransitionEffect
<1>3. ASSUME NEW j \in JobIds, NEW v \in 1..MaxVersion, NEW d \in RunIntents,
             set_desired_run_state(j, d, v)
      PROVE  DismissedIsDelivered'
  BY <1>3, IntentEffect
<1>4. ASSUME NEW j \in JobIds, NEW f \in Files, NEW s \in LedgerStatuses,
             NEW b \in 0..Size, NEW sha \in Shas \cup {"none"},
             update_file_ledger(j, f, s, b, sha)
      PROVE  DismissedIsDelivered'
  BY <1>4 DEF update_file_ledger
<1>5. ASSUME NEW j \in JobIds, NEW o \in Terminal, complete_job(j, o)
      PROVE  DismissedIsDelivered'
  BY <1>5, CompleteEffect
<1>6. ASSUME NEW j \in JobIds, acknowledge_completion(j)
      PROVE  DismissedIsDelivered'
  BY <1>6, AcknowledgeEffect
<1>7. ASSUME NEW p \in JobIds, NEW c \in JobIds, spawn_retry_job(p, c)
      PROVE  DismissedIsDelivered'
  <2>1. ~rows'[c].dismissed /\ outbox' = outbox
    BY <1>7, SpawnEffect
  <2>2. \A k \in JobIds : k # c => rows'[k] = rows[k]
    BY <1>7, SpawnEffect
  <2> QED BY <2>1, <2>2
<1>8. ASSUME NEW j \in JobIds, dismiss_job(j)
      PROVE  DismissedIsDelivered'
  BY <1>8, DismissEffect
<1>9. ASSUME NEW j \in JobIds, delete_job(j)
      PROVE  DismissedIsDelivered'
  BY <1>9, DeleteEffect
<1>10. ASSUME NEW old \in JobIds, NEW new \in JobIds, retarget_job(old, new)
       PROVE  DismissedIsDelivered'
  BY <1>10, RetargetEffect
<1> QED
  BY <1>1, <1>2, <1>3, <1>4, <1>5, <1>6, <1>7, <1>8, <1>9, <1>10 DEF StoreNext

(* A link names a parent row exactly when it is not the empty link. *)
LEMMA LinkFacts ==
    ASSUME StoreTypeOK, NEW c \in JobIds
    PROVE  /\ lineage[c] # NoLink => /\ lineage[c] \in Link
                                     /\ lineage[c].parent \in JobIds
                                     /\ lineage[c].attempt \in Nat
           /\ lineage[c].parent \in JobIds => lineage[c] # NoLink
<1>1. lineage[c] \in Link \cup {NoLink}
  BY DEF StoreTypeOK
<1>2. NoLink.parent \notin JobIds
  BY StoreConstants DEF NoLink
<1>3. lineage[c] \in Link => lineage[c].parent \in JobIds /\ lineage[c].attempt \in Nat
  BY StoreConstants DEF Link
<1> QED BY <1>1, <1>2, <1>3

(* What most methods keep: the links, the rows that are there and what they ask
   for, and every outcome. *)
KeepsRows ==
    /\ lineage' = lineage
    /\ \A k \in JobIds : Present(k) => /\ Present(k)'
                                       /\ rows'[k].identity = rows[k].identity
                                       /\ rows'[k].digest = rows[k].digest
    /\ \A k \in JobIds : IsTerminal(k) => /\ rows'[k].state = rows[k].state
                                          /\ IsTerminal(k)'
                                          /\ outbox[k].acked => outbox'[k].acked

(* The methods that neither remove a row nor write the lineage. *)
LEMMA MostKeepRows ==
    ASSUME StoreTypeOK, StoreNext
    PROVE  \/ KeepsRows
           \/ \E p, c \in JobIds : spawn_retry_job(p, c)
           \/ \E j \in JobIds : delete_job(j)
           \/ \E old, new \in JobIds : retarget_job(old, new)
<1>1. ASSUME NEW j \in JobIds, NEW id \in Identities, NEW d \in Digests, create_job(j, id, d)
      PROVE  KeepsRows
  <2>1. \A k \in JobIds : IsTerminal(k) => Present(k)
    BY RowFacts
  <2> QED BY <1>1, <2>1, CreateEffect DEF KeepsRows, Present, IsTerminal
<1>2. ASSUME NEW j \in JobIds, NEW v \in 1..MaxVersion, NEW to \in CommitStates,
             transition_job(j, v, to)
      PROVE  KeepsRows
  BY <1>2, TransitionEffect DEF KeepsRows, Present, IsTerminal
<1>3. ASSUME NEW j \in JobIds, NEW v \in 1..MaxVersion, NEW d \in RunIntents,
             set_desired_run_state(j, d, v)
      PROVE  KeepsRows
  BY <1>3, IntentEffect DEF KeepsRows, Present, IsTerminal
<1>4. ASSUME NEW j \in JobIds, NEW f \in Files, NEW s \in LedgerStatuses,
             NEW b \in 0..Size, NEW sha \in Shas \cup {"none"},
             update_file_ledger(j, f, s, b, sha)
      PROVE  KeepsRows
  BY <1>4 DEF update_file_ledger, KeepsRows, Present, IsTerminal
<1>5. ASSUME NEW j \in JobIds, NEW o \in Terminal, complete_job(j, o)
      PROVE  KeepsRows
  <2>1. Present(j)'
    BY <1>5, CompleteEffect, StateFacts DEF Present
  <2> QED BY <1>5, <2>1, CompleteEffect DEF KeepsRows, Present, IsTerminal
<1>6. ASSUME NEW j \in JobIds, acknowledge_completion(j)
      PROVE  KeepsRows
  BY <1>6, AcknowledgeEffect DEF KeepsRows, Present, IsTerminal
<1>7. ASSUME NEW j \in JobIds, dismiss_job(j)
      PROVE  KeepsRows
  BY <1>7, DismissEffect DEF KeepsRows, Present, IsTerminal
<1> QED BY <1>1, <1>2, <1>3, <1>4, <1>5, <1>6, <1>7 DEF StoreNext

(* A link outlives its step: its parent is terminal and delivered, which only
   delete_job and retarget_job undo, and both refuse a row with children. *)
LEMMA LineageStep ==
    ASSUME StoreTypeOK, LineageIsSound, StoreNext
    PROVE  LineageIsSound'
<1>1. \A c \in JobIds : lineage[c] # NoLink =>
          /\ lineage[c].parent \in JobIds
          /\ Present(lineage[c].parent) /\ IsTerminal(lineage[c].parent)
  BY LinkFacts, StateFacts DEF LineageIsSound, Present, IsTerminal
<1>2. CASE KeepsRows
  <2> SUFFICES ASSUME NEW c \in JobIds, lineage[c] # NoLink
               PROVE  LET p == lineage[c].parent
                      IN  /\ p # c
                          /\ Present(c)'
                          /\ rows'[p].state = "failed_retryable" /\ outbox'[p].acked
                          /\ rows'[c].identity = rows'[p].identity
                          /\ rows'[c].digest = rows'[p].digest
    BY <1>2 DEF KeepsRows, LineageIsSound, Present
  <2> DEFINE p == lineage[c].parent
  <2>1. p \in JobIds /\ Present(p) /\ IsTerminal(p)
    BY <1>1
  <2>2. /\ p # c /\ Present(c) /\ rows[p].state = "failed_retryable" /\ outbox[p].acked
        /\ rows[c].identity = rows[p].identity /\ rows[c].digest = rows[p].digest
    BY DEF LineageIsSound
  <2> HIDE DEF p
  <2> QED BY <1>2, <2>1, <2>2 DEF KeepsRows, p
<1>3. ASSUME NEW parent \in JobIds, NEW child \in JobIds, spawn_retry_job(parent, child)
      PROVE  LineageIsSound'
  <2>1. \A c \in JobIds : lineage[c] # NoLink => c # child /\ lineage[c].parent # child
    BY <1>1, <1>3, SpawnEffect DEF LineageIsSound
  <2>2. \A c \in JobIds : c # child =>
            lineage'[c] = lineage[c] /\ rows'[c] = rows[c] /\ outbox' = outbox
    BY <1>3, SpawnEffect
  <2>3. SUFFICES ASSUME NEW c \in JobIds, lineage'[c] # NoLink
                 PROVE  LET p == lineage'[c].parent
                        IN  /\ p # c
                            /\ Present(c)'
                            /\ rows'[p].state = "failed_retryable" /\ outbox'[p].acked
                            /\ rows'[c].identity = rows'[p].identity
                            /\ rows'[c].digest = rows'[p].digest
    BY DEF LineageIsSound, Present
  <2>4. CASE c = child
    BY <1>3, <2>2, <2>4, SpawnEffect
  <2>5. CASE c # child
    <3>1. lineage'[c] = lineage[c] /\ lineage[c] # NoLink
      BY <2>2, <2>3, <2>5
    <3> DEFINE p == lineage[c].parent
    <3>2. p \in JobIds /\ p # child
      BY <1>1, <2>1, <3>1
    <3>3. /\ p # c /\ Present(c) /\ rows[p].state = "failed_retryable" /\ outbox[p].acked
          /\ rows[c].identity = rows[p].identity /\ rows[c].digest = rows[p].digest
      BY <3>1 DEF LineageIsSound
    <3>4. rows'[p] = rows[p] /\ rows'[c] = rows[c] /\ outbox' = outbox
      BY <2>2, <2>5, <3>2
    <3> HIDE DEF p
    <3>5. Present(c)'
      BY <3>3, <3>4 DEF Present
    <3> QED BY <3>1, <3>3, <3>4, <3>5 DEF p
  <2> QED BY <2>4, <2>5
<1>4. ASSUME NEW j \in JobIds, delete_job(j)
      PROVE  LineageIsSound'
  <2>1. \A c \in JobIds : lineage'[c] # NoLink =>
            lineage'[c] = lineage[c] /\ c # j /\ lineage[c].parent # j
    BY <1>4, DeleteEffect DEF HasNoChildren, Children
  <2>2. \A k \in JobIds : k # j => rows'[k] = rows[k] /\ outbox'[k] = outbox[k]
    BY <1>4, DeleteEffect
  <2> QED BY <1>1, <2>1, <2>2 DEF LineageIsSound, Present
<1>5. ASSUME NEW old \in JobIds, NEW new \in JobIds, retarget_job(old, new)
      PROVE  LineageIsSound'
  <2>1. \A c \in JobIds : lineage[c] # NoLink =>
            c \notin {old, new} /\ lineage[c].parent \notin {old, new}
    <3>1. \A c \in JobIds : lineage[c] # NoLink => Present(c)
      BY DEF LineageIsSound
    <3>2. ~Present(new) /\ HasNoChildren(old) /\ lineage[old] = NoLink
      BY <1>5, RetargetEffect
    <3> QED BY <1>1, <3>1, <3>2 DEF HasNoChildren, Children
  <2>2. \A k \in JobIds \ {old, new} : rows'[k] = rows[k] /\ outbox'[k] = outbox[k]
    BY <1>5, RetargetEffect
  <2>3. lineage' = lineage
    BY <1>5, RetargetEffect
  <2> QED BY <1>1, <2>1, <2>2, <2>3 DEF LineageIsSound, Present
<1> QED BY <1>2, <1>3, <1>4, <1>5, MostKeepRows


(* A retry gets an attempt number above every earlier one of its parent, and
   the earlier ones have all ended by then. *)
LEMMA OneLiveChildStep ==
    ASSUME StoreTypeOK, LineageIsSound, OneLiveChild, StoreNext
    PROVE  OneLiveChild'
<1>1. CASE KeepsRows
  BY <1>1 DEF KeepsRows, OneLiveChild, IsTerminal
<1>2. ASSUME NEW parent \in JobIds, NEW child \in JobIds, spawn_retry_job(parent, child)
      PROVE  OneLiveChild'
  <2>1. lineage[child] = NoLink
    BY <1>2, SpawnEffect DEF LineageIsSound
  <2>2. \A k \in JobIds : k # child => lineage'[k] = lineage[k] /\ rows'[k] = rows[k]
    BY <1>2, SpawnEffect
  <2>3. lineage'[child].parent = parent
    BY <1>2, SpawnEffect
  <2>4. ASSUME NEW c \in JobIds, c # child, lineage[c].parent = parent
        PROVE  /\ IsTerminal(c) /\ lineage[c].attempt \in Nat /\ lineage'[child].attempt \in Nat
               /\ lineage[c].attempt < lineage'[child].attempt
    <3>1. c \in Children(parent) /\ lineage[c] # NoLink
      BY <2>4, LinkFacts DEF Children
    <3>2. PICK latest \in JobIds :
              /\ LatestChild(parent, latest)
              /\ lineage' = [lineage EXCEPT ![child] =
                                [parent |-> parent, attempt |-> lineage[latest].attempt + 1]]
      BY <1>2, <3>1 DEF spawn_retry_job
    <3>3. lineage[latest].parent = parent /\ lineage[c].attempt <= lineage[latest].attempt
      BY <3>1, <3>2 DEF LatestChild, Children
    <3>4. lineage[latest] # NoLink
      BY <3>3, LinkFacts
    <3>5. lineage[c].attempt \in Nat /\ lineage[latest].attempt \in Nat
      BY <3>1, <3>4, LinkFacts
    <3>6. lineage'[child].attempt = lineage[latest].attempt + 1
      BY <3>2 DEF StoreTypeOK
    <3>7. IsTerminal(latest)
      BY <1>2, <3>2, SpawnEffect DEF NoLiveChild
    <3>8. IsTerminal(c)
      <4>1. CASE c = latest
        BY <4>1, <3>7
      <4>2. CASE c # latest
        <5>1. lineage[c].attempt # lineage[latest].attempt
          BY <4>2, <2>4, <3>1, <3>3, <3>4 DEF OneLiveChild
        <5>2. lineage[c].attempt < lineage[latest].attempt
          BY <5>1, <3>3, <3>5
        <5> QED BY <5>2, <4>2, <2>4, <3>1, <3>3, <3>4 DEF OneLiveChild
      <4> QED BY <4>1, <4>2
    <3> QED BY <3>3, <3>5, <3>6, <3>8
  <2> SUFFICES ASSUME NEW c \in JobIds, NEW d \in JobIds, c # d,
                      lineage'[c] # NoLink, lineage'[d] # NoLink,
                      lineage'[c].parent = lineage'[d].parent
               PROVE  /\ lineage'[c].attempt # lineage'[d].attempt
                      /\ lineage'[c].attempt < lineage'[d].attempt => IsTerminal(c)'
    BY DEF OneLiveChild, IsTerminal
  <2>5. CASE c = child
    <3>1. d # child /\ lineage'[d] = lineage[d] /\ lineage[d].parent = parent
      BY <2>2, <2>3, <2>5
    <3> QED BY <2>4, <2>5, <3>1
  <2>6. CASE d = child
    <3>1. c # child /\ lineage'[c] = lineage[c] /\ lineage[c].parent = parent
      BY <2>2, <2>3, <2>6
    <3>2. IsTerminal(c)'
      BY <2>2, <2>4, <3>1 DEF IsTerminal
    <3> QED BY <2>4, <2>6, <3>1, <3>2
  <2>7. CASE c # child /\ d # child
    BY <2>2, <2>7 DEF OneLiveChild, IsTerminal
  <2> QED BY <2>5, <2>6, <2>7
<1>3. ASSUME NEW j \in JobIds, delete_job(j)
      PROVE  OneLiveChild'
  BY <1>3, DeleteEffect DEF OneLiveChild, IsTerminal
<1>4. ASSUME NEW old \in JobIds, NEW new \in JobIds, retarget_job(old, new)
      PROVE  OneLiveChild'
  <2>1. lineage' = lineage /\ lineage[old] = NoLink /\ ~Present(new)
    BY <1>4, RetargetEffect
  <2>2. lineage[new] = NoLink
    BY <2>1 DEF LineageIsSound
  <2>3. \A k \in JobIds \ {old, new} : rows'[k] = rows[k]
    BY <1>4, RetargetEffect
  <2> QED BY <2>1, <2>2, <2>3 DEF OneLiveChild, IsTerminal
<1> QED BY <1>1, <1>2, <1>3, <1>4, MostKeepRows

(* create_job finds no row of the identity, and every other method that writes
   an identity copies it together with its digest. *)
LEMMA DigestStep ==
    ASSUME StoreTypeOK, OneDigestPerIdentity, StoreNext
    PROVE  OneDigestPerIdentity'
<1> USE DEF OneDigestPerIdentity, Present
<1>1. ASSUME NEW j \in JobIds, NEW id \in Identities, NEW d \in Digests, create_job(j, id, d)
      PROVE  OneDigestPerIdentity'
  BY <1>1, CreateEffect DEF IdentityIsFree
<1>2. ASSUME NEW j \in JobIds, NEW v \in 1..MaxVersion, NEW to \in CommitStates,
             transition_job(j, v, to)
      PROVE  OneDigestPerIdentity'
  BY <1>2, TransitionEffect
<1>3. ASSUME NEW j \in JobIds, NEW v \in 1..MaxVersion, NEW d \in RunIntents,
             set_desired_run_state(j, d, v)
      PROVE  OneDigestPerIdentity'
  BY <1>3, IntentEffect
<1>4. ASSUME NEW j \in JobIds, NEW f \in Files, NEW s \in LedgerStatuses,
             NEW b \in 0..Size, NEW sha \in Shas \cup {"none"},
             update_file_ledger(j, f, s, b, sha)
      PROVE  OneDigestPerIdentity'
  BY <1>4 DEF update_file_ledger
<1>5. ASSUME NEW j \in JobIds, NEW o \in Terminal, complete_job(j, o)
      PROVE  OneDigestPerIdentity'
  BY <1>5, CompleteEffect
<1>6. ASSUME NEW j \in JobIds, acknowledge_completion(j)
      PROVE  OneDigestPerIdentity'
  BY <1>6, AcknowledgeEffect
<1>7. ASSUME NEW p \in JobIds, NEW c \in JobIds, spawn_retry_job(p, c)
      PROVE  OneDigestPerIdentity'
  <2>1. Present(p)
    BY <1>7, SpawnEffect
  <2>2. rows'[c].identity = rows[p].identity /\ rows'[c].digest = rows[p].digest
    BY <1>7, SpawnEffect
  <2>3. \A k \in JobIds : k # c => rows'[k] = rows[k]
    BY <1>7, SpawnEffect
  <2> QED BY <2>1, <2>2, <2>3
<1>8. ASSUME NEW j \in JobIds, dismiss_job(j)
      PROVE  OneDigestPerIdentity'
  BY <1>8, DismissEffect
<1>9. ASSUME NEW j \in JobIds, delete_job(j)
      PROVE  OneDigestPerIdentity'
  BY <1>9, DeleteEffect
<1>10. ASSUME NEW old \in JobIds, NEW new \in JobIds, retarget_job(old, new)
       PROVE  OneDigestPerIdentity'
  <2>1. Present(old) /\ ~Present(old)'
    BY <1>10, RetargetEffect
  <2>2. rows'[new].identity = rows[old].identity /\ rows'[new].digest = rows[old].digest
    BY <1>10, RetargetEffect
  <2>3. \A k \in JobIds \ {old, new} : rows'[k] = rows[k]
    BY <1>10, RetargetEffect
  <2> QED BY <2>1, <2>2, <2>3
<1> QED
  BY <1>1, <1>2, <1>3, <1>4, <1>5, <1>6, <1>7, <1>8, <1>9, <1>10 DEF StoreNext


(* The invariant is inductive: every method, and a step that writes nothing,
   preserves all of it. *)
LEMMA StoreStepInv ==
    ASSUME StoreInv, [StoreNext]_storeVars
    PROVE  StoreInv'
<1>1. CASE StoreNext
  BY <1>1, StoreStepType, OutboxStep, DismissedStep, LineageStep, OneLiveChildStep, DigestStep
     DEF StoreInv
<1>2. CASE UNCHANGED storeVars
  BY <1>2 DEF storeVars, StoreInv, StoreTypeOK, OutboxMatchesRow, DismissedIsDelivered,
              LineageIsSound, OneLiveChild, OneDigestPerIdentity, Present, IsTerminal
<1> QED BY <1>1, <1>2

(* Every reachable store satisfies the whole invariant. *)
THEOREM StoreInvariant == StoreSpec => []StoreInv
  BY StoreInitInv, StoreStepInv, PTL DEF StoreSpec

(* Every table holds well-formed rows: versions and attempts stay within their
   columns and no state leaves the state graph. *)
THEOREM StoreTypeCorrect == StoreSpec => []StoreTypeOK
<1>1. StoreInv => StoreTypeOK
  BY DEF StoreInv
<1> QED BY <1>1, StoreInvariant, PTL

(* A row is terminal exactly when its outcome is in the outbox, at the same
   version: complete_job leaves no window between the two. *)
THEOREM OutboxAgrees == StoreSpec => []OutboxMatchesRow
<1>1. StoreInv => OutboxMatchesRow
  BY DEF StoreInv
<1> QED BY <1>1, StoreInvariant, PTL

(* dismiss_job, delete_job and retarget_job never hide an undelivered outcome. *)
THEOREM DismissedDelivered == StoreSpec => []DismissedIsDelivered
<1>1. StoreInv => DismissedIsDelivered
  BY DEF StoreInv
<1> QED BY <1>1, StoreInvariant, PTL

(* spawn_retry_job's lineage never dangles, whatever is deleted or renamed. *)
THEOREM LineageSound == StoreSpec => []LineageIsSound
<1>1. StoreInv => LineageIsSound
  BY DEF StoreInv
<1> QED BY <1>1, StoreInvariant, PTL

(* However often and in whatever order spawn_retry_job is called, one parent
   has at most one live retry and it is the latest. *)
THEOREM AtMostOneLiveChild == StoreSpec => []OneLiveChild
<1>1. StoreInv => OneLiveChild
  BY DEF StoreInv
<1> QED BY <1>1, StoreInvariant, PTL

(* Every row of one session revision, retries and renamed rows included,
   carries the request digest create_job first accepted. *)
THEOREM OneDigest == StoreSpec => []OneDigestPerIdentity
<1>1. StoreInv => OneDigestPerIdentity
  BY DEF StoreInv
<1> QED BY <1>1, StoreInvariant, PTL

(* No method loses or rewrites an outcome before acknowledge_completion: the
   rows that hold one are terminal, so complete_job and transition_job refuse
   them, and delete_job and retarget_job ask whether it was delivered. *)
THEOREM UndeliveredSurvives == StoreSpec => UndeliveredOutcomeSurvives
<1> DEFINE Survives == \A j \in JobIds :
               outbox[j].outcome # "none" /\ ~outbox[j].acked
               => /\ outbox'[j].outcome = outbox[j].outcome
                  /\ outbox'[j].version = outbox[j].version
                  /\ rows'[j].state = rows[j].state
<1>1. ASSUME StoreInv, StoreNext
      PROVE  Survives
  <2> SUFFICES ASSUME NEW j \in JobIds, outbox[j].outcome # "none", ~outbox[j].acked
               PROVE  /\ outbox'[j].outcome = outbox[j].outcome
                      /\ outbox'[j].version = outbox[j].version
                      /\ rows'[j].state = rows[j].state
    OBVIOUS
  <2>1. StoreTypeOK /\ IsTerminal(j) /\ Present(j) /\ ~Delivered(j)
    <3>1. StoreTypeOK /\ outbox[j] # NoOutcome
      BY <1>1 DEF StoreInv, NoOutcome
    <3>2. IsTerminal(j)
      BY <1>1, <3>1 DEF StoreInv, OutboxMatchesRow
    <3> QED BY <3>1, <3>2, RowFacts DEF Delivered
  <2>2. CASE rows'[j] = rows[j] /\ outbox'[j] = outbox[j]
    BY <2>2
  <2>3. ASSUME NEW k \in JobIds, acknowledge_completion(k)
        PROVE  /\ outbox'[j].outcome = outbox[j].outcome
               /\ outbox'[j].version = outbox[j].version
               /\ rows'[j].state = rows[j].state
    BY <2>1, <2>3, AcknowledgeEffect
  <2>4. ASSUME NEW k \in JobIds, NEW v \in 1..MaxVersion, NEW d \in RunIntents,
               set_desired_run_state(k, d, v)
        PROVE  rows'[j].state = rows[j].state /\ outbox'[j] = outbox[j]
    BY <2>1, <2>4, IntentEffect
  <2>5. ASSUME NEW k \in JobIds, NEW id \in Identities, NEW d \in Digests, create_job(k, id, d)
        PROVE  rows'[j] = rows[j] /\ outbox'[j] = outbox[j]
    BY <2>1, <2>5, CreateEffect
  <2>6. ASSUME NEW k \in JobIds, NEW v \in 1..MaxVersion, NEW to \in CommitStates,
               transition_job(k, v, to)
        PROVE  rows'[j] = rows[j] /\ outbox'[j] = outbox[j]
    BY <2>1, <2>6, TransitionEffect
  <2>7. ASSUME NEW k \in JobIds, NEW f \in Files, NEW s \in LedgerStatuses,
               NEW b \in 0..Size, NEW sha \in Shas \cup {"none"},
               update_file_ledger(k, f, s, b, sha)
        PROVE  rows'[j] = rows[j] /\ outbox'[j] = outbox[j]
    BY <2>7 DEF update_file_ledger
  <2>8. ASSUME NEW k \in JobIds, NEW o \in Terminal, complete_job(k, o)
        PROVE  rows'[j] = rows[j] /\ outbox'[j] = outbox[j]
    BY <2>1, <2>8, CompleteEffect
  <2>9. ASSUME NEW p \in JobIds, NEW c \in JobIds, spawn_retry_job(p, c)
        PROVE  rows'[j] = rows[j] /\ outbox'[j] = outbox[j]
    BY <2>1, <2>9, SpawnEffect
  <2>10. ASSUME NEW k \in JobIds, dismiss_job(k)
         PROVE  rows'[j].state = rows[j].state /\ outbox'[j] = outbox[j]
    BY <2>1, <2>10, DismissEffect
  <2>11. ASSUME NEW k \in JobIds, delete_job(k)
         PROVE  rows'[j] = rows[j] /\ outbox'[j] = outbox[j]
    BY <2>1, <2>11, DeleteEffect
  <2>12. ASSUME NEW old \in JobIds, NEW new \in JobIds, retarget_job(old, new)
         PROVE  rows'[j] = rows[j] /\ outbox'[j] = outbox[j]
    BY <2>1, <2>12, RetargetEffect
  <2> QED
    BY <1>1, <2>3, <2>4, <2>5, <2>6, <2>7, <2>8, <2>9, <2>10, <2>11, <2>12 DEF StoreNext
<1>2. StoreInv /\ [StoreNext]_storeVars => [Survives]_storeVars
  BY <1>1
<1> HIDE DEF Survives
<1>3. StoreSpec => [][Survives]_storeVars
  BY <1>2, StoreInvariant, PTL DEF StoreSpec
<1> QED BY <1>3 DEF UndeliveredOutcomeSurvives, Survives


(* A terminal row keeps its state, version and identity until delete_job or
   retarget_job removes it, which happens only after its outcome was delivered:
   no outcome is ever followed by another run of the same row. *)
THEOREM TerminalFinal == StoreSpec => TerminalIsFinal
<1> DEFINE Final(j) == \/ rows'[j] = NoRow /\ outbox[j].acked
                       \/ /\ rows'[j].state = rows[j].state
                          /\ rows'[j].version = rows[j].version
                          /\ rows'[j].identity = rows[j].identity
           AllFinal == \A j \in JobIds : IsTerminal(j) => Final(j)
<1>1. ASSUME StoreInv, StoreNext
      PROVE  AllFinal
  <2> SUFFICES ASSUME NEW j \in JobIds, IsTerminal(j)
               PROVE  Final(j)
    OBVIOUS
  <2>1. StoreTypeOK /\ Present(j) /\ outbox[j].outcome # "none"
    <3>1. StoreTypeOK /\ outbox[j].outcome = rows[j].state
      BY <1>1 DEF StoreInv, OutboxMatchesRow
    <3> QED BY <3>1, RowFacts, StateFacts DEF IsTerminal
  <2>2. rows'[j] = rows[j] => Final(j)
    OBVIOUS
  <2>3. ASSUME NEW k \in JobIds, NEW id \in Identities, NEW d \in Digests, create_job(k, id, d)
        PROVE  rows'[j] = rows[j]
    BY <2>1, <2>3, CreateEffect
  <2>4. ASSUME NEW k \in JobIds, NEW v \in 1..MaxVersion, NEW to \in CommitStates,
               transition_job(k, v, to)
        PROVE  rows'[j] = rows[j]
    BY <2>1, <2>4, TransitionEffect
  <2>5. ASSUME NEW k \in JobIds, NEW v \in 1..MaxVersion, NEW d \in RunIntents,
               set_desired_run_state(k, d, v)
        PROVE  Final(j)
    BY <2>1, <2>5, IntentEffect
  <2>6. ASSUME NEW k \in JobIds, NEW f \in Files, NEW s \in LedgerStatuses,
               NEW b \in 0..Size, NEW sha \in Shas \cup {"none"},
               update_file_ledger(k, f, s, b, sha)
        PROVE  rows'[j] = rows[j]
    BY <2>6 DEF update_file_ledger
  <2>7. ASSUME NEW k \in JobIds, NEW o \in Terminal, complete_job(k, o)
        PROVE  rows'[j] = rows[j]
    BY <2>1, <2>7, CompleteEffect
  <2>8. ASSUME NEW k \in JobIds, acknowledge_completion(k)
        PROVE  rows'[j] = rows[j]
    BY <2>1, <2>8, AcknowledgeEffect
  <2>9. ASSUME NEW p \in JobIds, NEW c \in JobIds, spawn_retry_job(p, c)
        PROVE  rows'[j] = rows[j]
    BY <2>1, <2>9, SpawnEffect
  <2>10. ASSUME NEW k \in JobIds, dismiss_job(k)
         PROVE  Final(j)
    BY <2>1, <2>10, DismissEffect
  <2>11. ASSUME NEW k \in JobIds, delete_job(k)
         PROVE  Final(j)
    BY <2>1, <2>11, DeleteEffect DEF Delivered
  <2>12. ASSUME NEW old \in JobIds, NEW new \in JobIds, retarget_job(old, new)
         PROVE  Final(j)
    <3>1. CASE j = old
      BY <2>1, <2>12, <3>1, RetargetEffect DEF Delivered
    <3>2. CASE j # old
      BY <2>1, <2>12, <3>2, RetargetEffect
    <3> QED BY <3>1, <3>2
  <2> HIDE DEF Final
  <2> QED BY <1>1, <2>2, <2>3, <2>4, <2>5, <2>6, <2>7, <2>8, <2>9, <2>10, <2>11, <2>12
          DEF StoreNext
<1>2. StoreInv /\ [StoreNext]_storeVars => [AllFinal]_storeVars
  BY <1>1
<1> HIDE DEF AllFinal
<1>3. StoreSpec => [][AllFinal]_storeVars
  BY <1>2, StoreInvariant, PTL DEF StoreSpec
<1> QED BY <1>3 DEF TerminalIsFinal, AllFinal

(* What is known about a file on disk is never forgotten while its job keeps
   its row: update_file_ledger refuses to shrink it, and every other method
   leaves the evidence of a present row alone. *)
THEOREM EvidenceMonotonic == StoreSpec => EvidenceIsMonotonic
<1> DEFINE Grows(j, f) == /\ ledger'[j][f].bytes >= ledger[j][f].bytes
                          /\ ledger[j][f].status = "verified"
                             => /\ ledger'[j][f].status = "verified"
                                /\ ledger'[j][f].sha = ledger[j][f].sha
           AllGrow == \A j \in JobIds, f \in Files :
                          Present(j) /\ rows'[j].state # "absent" => Grows(j, f)
<1>1. ASSUME StoreInv, StoreNext
      PROVE  AllGrow
  <2> SUFFICES ASSUME NEW j \in JobIds, NEW f \in Files, Present(j), rows'[j].state # "absent"
               PROVE  Grows(j, f)
    OBVIOUS
  <2>1. StoreTypeOK /\ Present(j)'
    BY <1>1 DEF StoreInv, Present
  <2>2. ledger'[j] = ledger[j] => Grows(j, f)
    <3>1. ledger[j][f] \in Evidence
      BY <2>1 DEF StoreTypeOK
    <3>2. ledger[j][f].bytes \in Nat
      BY <3>1, StoreConstants DEF Evidence
    <3> QED BY <3>2
  <2>3. ASSUME NEW k \in JobIds, NEW id \in Identities, NEW d \in Digests, create_job(k, id, d)
        PROVE  ledger'[j] = ledger[j]
    BY <2>1, <2>3, CreateEffect
  <2>4. ASSUME NEW k \in JobIds, NEW v \in 1..MaxVersion, NEW to \in CommitStates,
               transition_job(k, v, to)
        PROVE  ledger'[j] = ledger[j]
    BY <2>1, <2>4, TransitionEffect
  <2>5. ASSUME NEW k \in JobIds, NEW v \in 1..MaxVersion, NEW d \in RunIntents,
               set_desired_run_state(k, d, v)
        PROVE  ledger'[j] = ledger[j]
    BY <2>1, <2>5, IntentEffect
  <2>6. ASSUME NEW k \in JobIds, NEW g \in Files, NEW s \in LedgerStatuses,
               NEW b \in 0..Size, NEW sha \in Shas \cup {"none"},
               update_file_ledger(k, g, s, b, sha)
        PROVE  Grows(j, f)
    <3>1. ledger \in [JobIds -> [Files -> Evidence]]
      BY <2>1 DEF StoreTypeOK
    <3>2. CASE j = k /\ f = g
      <4>1. ledger'[j][f] = [status |-> s, bytes |-> b, sha |-> sha]
        BY <2>6, <3>1, <3>2 DEF update_file_ledger
      <4>2. Extends(ledger[j][f], s, b, sha)
        BY <2>6, <3>2 DEF update_file_ledger
      <4> QED BY <4>1, <4>2 DEF Extends
    <3>3. CASE ~(j = k /\ f = g)
      <4>1. ledger'[j][f] = ledger[j][f]
        BY <2>6, <3>1, <3>3 DEF update_file_ledger
      <4>2. ledger[j][f] \in Evidence
        BY <3>1
      <4>3. ledger[j][f].bytes \in Nat
        BY <4>2, StoreConstants DEF Evidence
      <4> QED BY <4>1, <4>3
    <3> QED BY <3>2, <3>3
  <2>7. ASSUME NEW k \in JobIds, NEW o \in Terminal, complete_job(k, o)
        PROVE  ledger'[j] = ledger[j]
    BY <2>1, <2>7, CompleteEffect
  <2>8. ASSUME NEW k \in JobIds, acknowledge_completion(k)
        PROVE  ledger'[j] = ledger[j]
    BY <2>1, <2>8, AcknowledgeEffect
  <2>9. ASSUME NEW p \in JobIds, NEW c \in JobIds, spawn_retry_job(p, c)
        PROVE  ledger'[j] = ledger[j]
    BY <2>1, <2>9, SpawnEffect
  <2>10. ASSUME NEW k \in JobIds, dismiss_job(k)
         PROVE  ledger'[j] = ledger[j]
    BY <2>1, <2>10, DismissEffect
  <2>11. ASSUME NEW k \in JobIds, delete_job(k)
         PROVE  ledger'[j] = ledger[j]
    BY <2>1, <2>11, DeleteEffect
  <2>12. ASSUME NEW old \in JobIds, NEW new \in JobIds, retarget_job(old, new)
         PROVE  ledger'[j] = ledger[j]
    BY <2>1, <2>12, RetargetEffect
  <2> HIDE DEF Grows
  <2> QED BY <1>1, <2>2, <2>3, <2>4, <2>5, <2>6, <2>7, <2>8, <2>9, <2>10, <2>11, <2>12
          DEF StoreNext
<1>2. StoreInv /\ [StoreNext]_storeVars => [AllGrow]_storeVars
  BY <1>1
<1> HIDE DEF AllGrow
<1>3. StoreSpec => [][AllGrow]_storeVars
  BY <1>2, StoreInvariant, PTL DEF StoreSpec
<1> QED BY <1>3 DEF EvidenceIsMonotonic, AllGrow

-----------------------------------------------------------------------------
(* The places of a delete command and the shapes of the records.           *)
DeletePlaces == {"idle", "busy", "lease", "stage", "rename", "recover", "record", "commit",
                 "rollback", "abort", "cleanup", "finalize", "settle", "fail", "done"}
DeleteRecords ==
    [pc : DeletePlaces, batch : SUBSET Entries, todo : SUBSET Entries,
     at : SUBSET (Entries \cup {NoOne}), expected : Nat, kept : BOOLEAN, committed : Nat]
DeliveryRecords ==
    [pc : {"idle", "write", "ack"}, at : Entries \cup {NoOne}, expected : Nat, seen : Contents]

Untouched == {"idle", "busy", "lease"}
Unrecorded == {"idle", "busy", "lease", "stage", "rename", "recover", "record"}
BeforeCommit == {"busy", "lease", "stage", "rename", "record", "commit"}
AfterCommit == {"cleanup", "finalize", "settle"}

LibraryRecords ==
    /\ op \in [Ops -> DeleteRecords] /\ dl \in [Deliverers -> DeliveryRecords]
    /\ media \in Nat /\ up \in BOOLEAN /\ used \in [Kinds -> Nat]

(* What a process that is down does not do.                                *)
AtRest == ~up => /\ \A o \in Ops : op[o].pc \in {"idle", "done"}
                 /\ \A d \in Deliverers : dl[d].pc = "idle"

DeliveryInBounds(d) == dl[d].pc # "idle" => dl[d].at \in Entries /\ dl[d].expected <= diskRev
DeleteInBounds(o) ==
    /\ op[o].todo \subseteq op[o].batch
    /\ op[o].pc = "idle" => op[o].batch = {}
    /\ op[o].pc \in BeforeCommit => op[o].batch # {} /\ op[o].kept = TRUE
    /\ op[o].pc = "rename" => op[o].at \subseteq op[o].batch
    /\ op[o].pc = "abort" => op[o].todo = {}
    /\ op[o].pc \in AfterCommit => op[o].committed \in 1..diskRev

(* The intents follow the delete that recorded them.                       *)
IntentsFollow(o) ==
    /\ op[o].pc \in Unrecorded => \A e \in Entries : intent[o][e] = "none"
    /\ op[o].pc # "done" => \A e \in Entries \ op[o].batch : intent[o][e] = "none"
    /\ op[o].pc = "commit" => \A e \in op[o].batch : intent[o][e] = "staged"
    /\ op[o].pc \in {"rollback", "abort"} =>
         \A e \in op[o].batch : intent[o][e] = IF op[o].kept THEN "staged" ELSE "none"
    /\ op[o].pc \in {"cleanup", "finalize"} => \A e \in op[o].batch : intent[o][e] = "committed"

(* What lies in the trash is of the batch; a rollback without an error     *)
(* leaves nothing there.                                                   *)
TrashFollows(o) ==
    /\ op[o].pc # "done" => \A e \in Entries : <<o, e>> \in trash \cup marker =>
                                e \in op[o].batch /\ op[o].pc \notin Untouched
    /\ op[o].pc \in {"rollback", "abort"} /\ op[o].at # {NoOne} =>
         \A e \in op[o].batch \ op[o].todo : <<o, e>> \notin trash

(* A delete that has yet to commit read no later revision than memory has, *)
(* and saw its entries there; one that has committed is alone, and memory  *)
(* without its entries is what it committed.                               *)
Without(m, batch) == [e \in Entries |-> IF e \in batch THEN "absent" ELSE m[e]]
ReadsTrue(o) == op[o].pc \in BeforeCommit =>
    /\ op[o].expected <= memRev
    /\ op[o].expected = memRev => \A e \in op[o].batch : mem[e] # "absent"
SettlesTrue(o) == op[o].pc \in AfterCommit =>
    /\ memRev < op[o].committed
    /\ op[o].committed = diskRev => row = Without(mem, op[o].batch)
    /\ \A p \in Ops : op[p].pc \in AfterCommit => p = o
CopyIsCurrent == ~adopted =>
    /\ memRev = diskRev => mem = row
    /\ \A o \in Ops : ReadsTrue(o) /\ SettlesTrue(o)

LibraryInv ==
    /\ LibraryTypeOK /\ LibraryRecords /\ AtRest
    /\ \A d \in Deliverers : DeliveryInBounds(d)
    /\ \A o \in Ops : DeleteInBounds(o) /\ IntentsFollow(o) /\ TrashFollows(o)
    /\ CopyIsCurrent

-----------------------------------------------------------------------------
(* What each step of a delete does.                                        *)

(* A failed step is counted.                                               *)
Faulted ==
    /\ used["faults"] < Budget["faults"] /\ used["faults"] + used["crashes"] < MaxMishaps
    /\ used'["faults"] = used["faults"] + 1 /\ used'["crashes"] = used["crashes"]
    /\ used' \in [Kinds -> Nat]

SameMishaps ==
    /\ used'["faults"] = used["faults"] /\ used'["crashes"] = used["crashes"]
    /\ used' \in [Kinds -> Nat]

(* The other deletes and their intents stay as they are.                   *)
LeavesOthers(o) ==
    /\ op' \in [Ops -> DeleteRecords] /\ intent' \in [Ops -> [Entries -> {"none", "staged", "committed"}]]
    /\ \A p \in Ops \ {o} : op'[p] = op[p] /\ intent'[p] = intent[p]

(* A step of a delete that moves no revision.                              *)
DeleteStep(o) ==
    /\ up /\ up' = up /\ row' = row /\ diskRev' = diskRev /\ mem' = mem /\ memRev' = memRev
    /\ adopted' = adopted /\ dl' = dl /\ media' = media /\ pend' = pend /\ claimed' = claimed
    /\ lease' \in [Entries -> Ops \cup {NoOne, Uploader}]
    /\ LeavesOthers(o)
    /\ op'[o].batch = op[o].batch /\ op'[o].expected = op[o].expected
    /\ op'[o].committed = op[o].committed

SameFiles == src' = src /\ trash' = trash /\ marker' = marker

LEMMA FaultEffect ==
    ASSUME LibraryRecords, Spend("faults")
    PROVE  Faulted
  BY LibraryConstants DEF LibraryRecords, Spend, Faulted, Kinds

LEMMA EventEffect ==
    ASSUME LibraryRecords, NEW k \in Kinds \ {"faults", "crashes"}, Spend(k)
    PROVE  SameMishaps
  BY LibraryConstants DEF LibraryRecords, Spend, SameMishaps, Kinds

LEMMA CrashEffect ==
    ASSUME LibraryRecords, Spend("crashes")
    PROVE  /\ used["faults"] + used["crashes"] < MaxMishaps
           /\ used'["faults"] = used["faults"] /\ used' \in [Kinds -> Nat]
  BY LibraryConstants DEF LibraryRecords, Spend, Kinds

(* A delete that only goes on to another place.                            *)
LEMMA GotoEffect ==
    ASSUME LibraryRecords, NEW o \in Ops, NEW l \in DeletePlaces, Goto(o, l)
    PROVE  /\ op' \in [Ops -> DeleteRecords] /\ \A p \in Ops \ {o} : op'[p] = op[p]
           /\ op'[o].pc = l /\ op'[o].batch = op[o].batch /\ op'[o].todo = op[o].todo
           /\ op'[o].at = op[o].at /\ op'[o].expected = op[o].expected
           /\ op'[o].kept = op[o].kept /\ op'[o].committed = op[o].committed
  BY DEF LibraryRecords, Goto, DeleteRecords

(* A delete whose record is replaced.                                      *)
LEMMA TurnEffect ==
    ASSUME LibraryRecords, NEW o \in Ops, NEW n \in DeleteRecords, op' = [op EXCEPT ![o] = n]
    PROVE  /\ op' \in [Ops -> DeleteRecords] /\ \A p \in Ops \ {o} : op'[p] = op[p]
           /\ op'[o] = n
  BY DEF LibraryRecords

LEMMA BusyEffect ==
    ASSUME LibraryTypeOK, LibraryRecords, NEW o \in Ops, entry_busy_reason(o)
    PROVE  /\ DeleteStep(o) /\ SameFiles /\ SameMishaps /\ intent' = intent
           /\ op[o].pc = "busy" /\ op'[o].pc \in {"fail", "lease"}
           /\ op'[o].todo = op[o].todo /\ op'[o].at = op[o].at /\ op'[o].kept = op[o].kept
<1>1. \E l \in {"fail", "lease"} : Goto(o, l)
  BY DEF entry_busy_reason
<1>2. PICK l \in {"fail", "lease"} : Goto(o, l)
  BY <1>1
<1>3. l \in DeletePlaces
  BY DEF DeletePlaces
<1> QED
  BY <1>2, <1>3, GotoEffect DEF entry_busy_reason, DeleteStep, SameFiles, SameMishaps, LeavesOthers,
     LibraryTypeOK, LibraryRecords, appStore, copy, files

LEMMA LeaseEffect ==
    ASSUME LibraryTypeOK, LibraryRecords, NEW o \in Ops, acquire_operation_leases(o)
    PROVE  /\ DeleteStep(o) /\ SameFiles /\ SameMishaps /\ intent' = intent
           /\ op[o].pc = "lease" /\ op'[o].pc \in {"fail", "stage"}
           /\ op'[o].todo = op[o].todo /\ op'[o].at = op[o].at /\ op'[o].kept = op[o].kept
<1>1. \E l \in {"fail", "stage"} : Goto(o, l)
  BY DEF acquire_operation_leases
<1>2. PICK l \in {"fail", "stage"} : Goto(o, l)
  BY <1>1
<1>3. l \in DeletePlaces
  BY DEF DeletePlaces
<1>4. lease' \in [Entries -> Ops \cup {NoOne, Uploader}]
  BY DEF acquire_operation_leases, LibraryTypeOK
<1> QED
  BY <1>2, <1>3, <1>4, GotoEffect DEF acquire_operation_leases, DeleteStep, SameFiles, SameMishaps,
     LeavesOthers, LibraryTypeOK, LibraryRecords, appStore, copy, files

LEMMA MarkEffect ==
    ASSUME LibraryTypeOK, LibraryRecords, NEW o \in Ops, NEW e \in Entries, write_marker(o, e)
    PROVE  /\ DeleteStep(o) /\ src' = src /\ trash' = trash /\ intent' = intent
           /\ op[o].pc = "stage" /\ e \in op[o].todo
           /\ op'[o].todo = op[o].todo /\ op'[o].kept = op[o].kept
           /\ marker \subseteq marker' /\ marker' \subseteq marker \cup {<<o, e>>}
           /\ \/ SameMishaps /\ op'[o].pc = "rename" /\ op'[o].at = {e} /\ <<o, e>> \in marker'
              \/ Faulted /\ op'[o].pc = "recover"
<1>1. CASE /\ marker' = marker \cup {<<o, e>>}
           /\ op' = [op EXCEPT ![o].pc = "rename", ![o].at = {e}]
           /\ UNCHANGED used
  <2>1. /\ op' \in [Ops -> DeleteRecords] /\ \A p \in Ops \ {o} : op'[p] = op[p]
        /\ op'[o].pc = "rename" /\ op'[o].batch = op[o].batch /\ op'[o].todo = op[o].todo
        /\ op'[o].at = {e} /\ op'[o].expected = op[o].expected
        /\ op'[o].kept = op[o].kept /\ op'[o].committed = op[o].committed
    BY <1>1 DEF LibraryRecords, DeleteRecords, DeletePlaces
  <2> QED
    BY <1>1, <2>1 DEF write_marker, DeleteStep, SameMishaps, LeavesOthers, LibraryTypeOK,
       LibraryRecords, appStore, copy
<1>2. CASE /\ Spend("faults") /\ Goto(o, "recover")
           /\ marker' \in {marker, marker \cup {<<o, e>>}}
  <2>1. Faulted
    BY <1>2, FaultEffect
  <2>2. "recover" \in DeletePlaces
    BY DEF DeletePlaces
  <2> QED
    BY <1>2, <2>1, <2>2, GotoEffect DEF write_marker, DeleteStep, LeavesOthers, LibraryTypeOK,
       LibraryRecords, appStore, copy
<1> QED
  BY <1>1, <1>2 DEF write_marker

LEMMA MoveEffect ==
    ASSUME LibraryTypeOK, LibraryRecords, NEW o \in Ops, NEW e \in Entries, move_to_trash(o, e)
    PROVE  /\ DeleteStep(o) /\ marker' = marker /\ intent' = intent
           /\ op[o].pc = "rename" /\ op[o].at = {e} /\ op'[o].kept = op[o].kept
           /\ op'[o].todo \subseteq op[o].todo
           /\ \/ src' = src \ {e} /\ trash' = trash \cup {<<o, e>>} /\ e \in src
              \/ src' = src /\ trash' = trash
           /\ \/ SameMishaps /\ op'[o].pc \in {"stage", "record"}
              \/ Faulted /\ op'[o].pc = "recover"
<1> DEFINE todo == op[o].todo \ {e}
           next == IF todo = {} THEN "record" ELSE "stage"
           moved == /\ src' = src \ {e}
                    /\ trash' = IF e \in src THEN trash \cup {<<o, e>>} ELSE trash
<1>1. moved => \/ src' = src \ {e} /\ trash' = trash \cup {<<o, e>>} /\ e \in src
               \/ src' = src /\ trash' = trash
  BY DEF LibraryTypeOK
<1>2. CASE moved /\ op' = [op EXCEPT ![o].pc = next, ![o].todo = todo] /\ UNCHANGED used
  <2>1. /\ op' \in [Ops -> DeleteRecords] /\ \A p \in Ops \ {o} : op'[p] = op[p]
        /\ op'[o].pc = next /\ op'[o].batch = op[o].batch /\ op'[o].todo = todo
        /\ op'[o].at = op[o].at /\ op'[o].expected = op[o].expected
        /\ op'[o].kept = op[o].kept /\ op'[o].committed = op[o].committed
    BY <1>2 DEF LibraryRecords, DeleteRecords, DeletePlaces
  <2> HIDE DEF moved
  <2> QED
    BY <1>1, <1>2, <2>1 DEF move_to_trash, DeleteStep, SameMishaps, LeavesOthers, LibraryTypeOK,
       LibraryRecords, appStore, copy
<1>3. CASE /\ Spend("faults") /\ (moved \/ UNCHANGED <<src, trash>>) /\ Goto(o, "recover")
  <2>1. Faulted
    BY <1>3, FaultEffect
  <2>2. "recover" \in DeletePlaces
    BY DEF DeletePlaces
  <2>3. \/ src' = src \ {e} /\ trash' = trash \cup {<<o, e>>} /\ e \in src
        \/ src' = src /\ trash' = trash
    BY <1>1, <1>3
  <2> HIDE DEF moved
  <2> QED
    BY <1>3, <2>1, <2>2, <2>3, GotoEffect DEF move_to_trash, DeleteStep, LeavesOthers, LibraryTypeOK,
       LibraryRecords, appStore, copy
<1> QED
  BY <1>2, <1>3 DEF move_to_trash

(* The orphans, entry by entry.                                            *)
LEMMA OrphanFacts ==
    ASSUME LibraryTypeOK
    PROVE  /\ Orphans \subseteq Ops \X Entries
           /\ \A o \in Ops, e \in Entries :
                <<o, e>> \in Orphans <=> <<o, e>> \in marker /\ intent[o][e] = "none"
  BY DEF LibraryTypeOK, Orphans, Intended

LEMMA RecoverEffect ==
    ASSUME LibraryTypeOK, LibraryRecords, NEW o \in Ops, recover_orphan_markers(o)
    PROVE  /\ DeleteStep(o) /\ SameMishaps /\ intent' = intent
           /\ op[o].pc = "recover" /\ op'[o].pc = "fail"
           /\ op'[o].todo = op[o].todo /\ op'[o].at = op[o].at /\ op'[o].kept = op[o].kept
           /\ \E done \in SUBSET Orphans :
                /\ trash' = trash \ done /\ marker' = marker \ done
                /\ src' = src \cup {x[2] : x \in done \cap trash}
<1>1. "fail" \in DeletePlaces
  BY DEF DeletePlaces
<1>2. lease' \in [Entries -> Ops \cup {NoOne, Uploader}]
  BY DEF recover_orphan_markers, LeasesOf, LibraryTypeOK
<1>3. \E done \in SUBSET Orphans :
         /\ trash' = trash \ done /\ marker' = marker \ done
         /\ src' = src \cup {x[2] : x \in done \cap trash}
  BY DEF recover_orphan_markers, RestoredSrc
<1>4. Goto(o, "fail")
  BY DEF recover_orphan_markers
<1> QED
  BY <1>1, <1>2, <1>3, <1>4, GotoEffect DEF recover_orphan_markers, DeleteStep, SameMishaps, LeavesOthers,
     LibraryTypeOK, LibraryRecords, copy

LEMMA RecordEffect ==
    ASSUME LibraryTypeOK, LibraryRecords, NEW o \in Ops, record_library_delete_intents(o)
    PROVE  /\ DeleteStep(o) /\ SameFiles /\ op[o].pc = "record" /\ op'[o].at = op[o].at
           /\ \/ /\ SameMishaps /\ op'[o].pc = "commit" /\ op'[o].todo = op[o].todo
                 /\ op'[o].kept = op[o].kept
                 /\ \A e \in Entries : intent'[o][e] = IF e \in op[o].batch THEN "staged" ELSE "none"
              \/ /\ Faulted /\ op'[o].pc = "rollback" /\ op'[o].todo = op[o].batch
                 /\ op'[o].kept = FALSE /\ intent' = intent
<1>1. CASE /\ intent' = [intent EXCEPT ![o] =
                          [e \in Entries |-> IF e \in op[o].batch THEN "staged" ELSE "none"]]
           /\ Goto(o, "commit") /\ UNCHANGED used
  <2>1. "commit" \in DeletePlaces
    BY DEF DeletePlaces
  <2>2. /\ intent' \in [Ops -> [Entries -> {"none", "staged", "committed"}]]
        /\ \A p \in Ops \ {o} : intent'[p] = intent[p]
        /\ \A e \in Entries : intent'[o][e] = IF e \in op[o].batch THEN "staged" ELSE "none"
    BY <1>1 DEF LibraryTypeOK
  <2> QED
    BY <1>1, <2>1, <2>2, GotoEffect DEF record_library_delete_intents, DeleteStep, SameFiles,
       SameMishaps, LeavesOthers, LibraryTypeOK, LibraryRecords, copy, files
<1>2. CASE /\ Spend("faults") /\ UNCHANGED intent
           /\ op' = [op EXCEPT ![o].pc = "rollback", ![o].kept = FALSE, ![o].todo = op[o].batch]
  <2>1. Faulted
    BY <1>2, FaultEffect
  <2>2. /\ op' \in [Ops -> DeleteRecords] /\ \A p \in Ops \ {o} : op'[p] = op[p]
        /\ op'[o].pc = "rollback" /\ op'[o].batch = op[o].batch /\ op'[o].todo = op[o].batch
        /\ op'[o].at = op[o].at /\ op'[o].expected = op[o].expected
        /\ op'[o].kept = FALSE /\ op'[o].committed = op[o].committed
    BY <1>2 DEF LibraryRecords, DeleteRecords, DeletePlaces
  <2> QED
    BY <1>2, <2>1, <2>2 DEF record_library_delete_intents, DeleteStep, SameFiles, LeavesOthers,
       LibraryTypeOK, LibraryRecords, copy, files
<1> QED
  BY <1>1, <1>2 DEF record_library_delete_intents

(* A delete that turns to the rest of its batch.                           *)
Rest(o, todo, at, l) == op' = [op EXCEPT ![o].todo = todo, ![o].at = at, ![o].pc = l]

LEMMA RestEffect ==
    ASSUME LibraryRecords, NEW o \in Ops, NEW todo \in SUBSET Entries,
           NEW at \in SUBSET (Entries \cup {NoOne}), NEW l \in DeletePlaces,
           Rest(o, todo, at, l)
    PROVE  /\ op' \in [Ops -> DeleteRecords] /\ \A p \in Ops \ {o} : op'[p] = op[p]
           /\ op'[o].pc = l /\ op'[o].batch = op[o].batch /\ op'[o].todo = todo
           /\ op'[o].at = at /\ op'[o].expected = op[o].expected
           /\ op'[o].kept = op[o].kept /\ op'[o].committed = op[o].committed
  BY DEF LibraryRecords, DeleteRecords, Rest

LEMMA RollbackEffect ==
    ASSUME LibraryTypeOK, LibraryRecords, NEW o \in Ops, NEW e \in Entries, rollback_staged(o, e)
    PROVE  /\ DeleteStep(o) /\ intent' = intent /\ marker' = marker \ {<<o, e>>}
           /\ op[o].pc = "rollback" /\ e \in op[o].todo /\ op'[o].todo = op[o].todo \ {e}
           /\ op'[o].kept = op[o].kept
           /\ op'[o].pc = IF op'[o].todo = {} THEN "abort" ELSE "rollback"
           /\ op'[o].at \in {op[o].at, {NoOne}}
           /\ \/ SameMishaps
              \/ Faulted /\ op'[o].at = {NoOne}
           /\ \/ trash' = trash \ {<<o, e>>} /\ src' = IF <<o, e>> \in trash THEN src \cup {e} ELSE src
              \/ trash' = trash /\ src' = src /\ op'[o].at = {NoOne} /\ (e \in src \/ Faulted)
<1> DEFINE todo == op[o].todo \ {e}
           next == IF todo = {} THEN "abort" ELSE "rollback"
<1>1. /\ next \in DeletePlaces /\ todo \in SUBSET Entries /\ {NoOne} \in SUBSET (Entries \cup {NoOne})
      /\ op[o].at \in SUBSET (Entries \cup {NoOne})
  BY DEF LibraryRecords, DeleteRecords, DeletePlaces
<1>2. /\ \/ Rest(o, todo, op[o].at, next) /\ SameMishaps
         \/ Rest(o, todo, {NoOne}, next) /\ (SameMishaps \/ Faulted)
      /\ \/ trash' = trash \ {<<o, e>>} /\ src' = IF <<o, e>> \in trash THEN src \cup {e} ELSE src
         \/ trash' = trash /\ src' = src /\ Rest(o, todo, {NoOne}, next) /\ (e \in src \/ Faulted)
  <2> DEFINE step(ok) == op' = [op EXCEPT ![o].todo = todo, ![o].at = IF ok THEN @ ELSE {NoOne},
                                  ![o].pc = next]
  <2>1. CASE /\ <<o, e>> \in trash => e \notin src
             /\ trash' = trash \ {<<o, e>>}
             /\ src' = IF <<o, e>> \in trash THEN src \cup {e} ELSE src
             /\ step(TRUE) /\ UNCHANGED used
    <3>1. Rest(o, todo, op[o].at, next)
      BY <2>1 DEF LibraryRecords, DeleteRecords, Rest
    <3> QED BY <2>1, <3>1 DEF SameMishaps, LibraryRecords
  <2>2. CASE <<o, e>> \in trash /\ e \in src /\ step(FALSE) /\ UNCHANGED <<src, trash, used>>
    BY <2>2 DEF SameMishaps, LibraryRecords, Rest
  <2>3. CASE /\ <<o, e>> \in trash /\ e \notin src /\ Spend("faults")
             /\ \/ UNCHANGED <<src, trash>>
                \/ src' = src \cup {e} /\ trash' = trash \ {<<o, e>>}
             /\ step(FALSE)
    BY <2>3, FaultEffect DEF Rest
  <2> QED
    BY <2>1, <2>2, <2>3 DEF rollback_staged
<1>3. /\ Rest(o, todo, op[o].at, next) \/ Rest(o, todo, {NoOne}, next)
      /\ Rest(o, todo, {NoOne}, next) => op'[o].at = {NoOne}
  BY <1>1, <1>2, RestEffect
<1>4. /\ op' \in [Ops -> DeleteRecords] /\ \A p \in Ops \ {o} : op'[p] = op[p]
      /\ op'[o].pc = next /\ op'[o].batch = op[o].batch /\ op'[o].todo = todo
      /\ op'[o].at \in {op[o].at, {NoOne}} /\ op'[o].expected = op[o].expected
      /\ op'[o].kept = op[o].kept /\ op'[o].committed = op[o].committed
  BY <1>1, <1>3, RestEffect
<1>5. LeavesOthers(o)
  BY <1>4 DEF LeavesOthers, rollback_staged, appStore, LibraryTypeOK
<1> QED
  BY <1>2, <1>3, <1>4, <1>5 DEF rollback_staged, DeleteStep, LibraryTypeOK, appStore, copy

LEMMA AbortEffect ==
    ASSUME LibraryTypeOK, LibraryRecords, NEW o \in Ops, abort_library_delete(o)
    PROVE  /\ DeleteStep(o) /\ SameFiles /\ op[o].pc = "abort" /\ op'[o].pc = "fail"
           /\ op'[o].todo = op[o].todo /\ op'[o].at = op[o].at /\ op'[o].kept = op[o].kept
           /\ SameMishaps \/ Faulted
           /\ \/ intent' = intent
              \/ /\ op[o].at # {NoOne} \/ ~op[o].kept
                 /\ \A e \in Entries :
                      intent'[o][e] = IF intent[o][e] = "staged" THEN "none" ELSE intent[o][e]
<1>1. "fail" \in DeletePlaces /\ Goto(o, "fail")
  BY DEF DeletePlaces, abort_library_delete
<1>2. /\ lease' \in [Entries -> Ops \cup {NoOne, Uploader}]
      /\ intent' \in [Ops -> [Entries -> {"none", "staged", "committed"}]]
      /\ \A p \in Ops \ {o} : intent'[p] = intent[p]
      /\ \/ intent' = intent
         \/ /\ op[o].at # {NoOne} \/ ~op[o].kept
            /\ \A e \in Entries :
                 intent'[o][e] = IF intent[o][e] = "staged" THEN "none" ELSE intent[o][e]
  BY DEF abort_library_delete, LeasesOf, LibraryTypeOK
<1>3. SameMishaps \/ Faulted
  BY FaultEffect DEF abort_library_delete, SameMishaps, LibraryRecords
<1> QED
  BY <1>1, <1>2, <1>3, GotoEffect DEF abort_library_delete, DeleteStep, SameFiles, LeavesOthers,
     LibraryRecords, copy, files

LEMMA CleanupEffect ==
    ASSUME LibraryTypeOK, LibraryRecords, NEW o \in Ops, NEW e \in Entries,
           cleanup_committed_delete(o, e)
    PROVE  /\ DeleteStep(o) /\ src' = src /\ intent' = intent /\ marker' = marker \ {<<o, e>>}
           /\ op[o].pc = "cleanup" /\ e \in op[o].todo /\ op'[o].todo \subseteq op[o].todo
           /\ op'[o].at = op[o].at /\ op'[o].kept = op[o].kept
           /\ op'[o].pc \in {"cleanup", "finalize", "settle"}
           /\ trash' \in {trash, trash \ {<<o, e>>}}
           /\ SameMishaps \/ Faulted
<1> DEFINE todo == op[o].todo \ {e}
           next == IF todo = {} THEN "finalize" ELSE "cleanup"
<1>1. CASE /\ trash' = trash \ {<<o, e>>} /\ op' = [op EXCEPT ![o].todo = todo, ![o].pc = next]
           /\ UNCHANGED used
  <2>1. /\ op' \in [Ops -> DeleteRecords] /\ \A p \in Ops \ {o} : op'[p] = op[p]
        /\ op'[o].pc = next /\ op'[o].batch = op[o].batch /\ op'[o].todo = todo
        /\ op'[o].at = op[o].at /\ op'[o].expected = op[o].expected
        /\ op'[o].kept = op[o].kept /\ op'[o].committed = op[o].committed
    BY <1>1 DEF LibraryRecords, DeleteRecords, DeletePlaces
  <2> QED
    BY <1>1, <2>1 DEF cleanup_committed_delete, DeleteStep, SameMishaps, LeavesOthers, LibraryTypeOK,
       LibraryRecords, appStore, copy
<1>2. CASE Spend("faults") /\ Goto(o, "settle") /\ UNCHANGED trash
  <2>1. Faulted /\ "settle" \in DeletePlaces
    BY <1>2, FaultEffect DEF DeletePlaces
  <2> QED
    BY <1>2, <2>1, GotoEffect DEF cleanup_committed_delete, DeleteStep, LeavesOthers, LibraryTypeOK,
       LibraryRecords, appStore, copy
<1> QED
  BY <1>1, <1>2 DEF cleanup_committed_delete

LEMMA FinalizeEffect ==
    ASSUME LibraryTypeOK, LibraryRecords, NEW o \in Ops, finalize_library_delete(o)
    PROVE  /\ DeleteStep(o) /\ SameFiles /\ op[o].pc = "finalize" /\ op'[o].pc = "settle"
           /\ op'[o].todo = op[o].todo /\ op'[o].at = op[o].at /\ op'[o].kept = op[o].kept
           /\ SameMishaps \/ Faulted
           /\ intent' = intent \/ \A e \in Entries : intent'[o][e] = "none"
<1>1. "settle" \in DeletePlaces /\ Goto(o, "settle")
  BY DEF DeletePlaces, finalize_library_delete
<1>2. /\ lease' \in [Entries -> Ops \cup {NoOne, Uploader}]
      /\ intent' \in [Ops -> [Entries -> {"none", "staged", "committed"}]]
      /\ \A p \in Ops \ {o} : intent'[p] = intent[p]
      /\ intent' = intent \/ \A e \in Entries : intent'[o][e] = "none"
  BY DEF finalize_library_delete, LeasesOf, LibraryTypeOK
<1>3. SameMishaps \/ Faulted
  BY FaultEffect DEF finalize_library_delete, SameMishaps, LibraryRecords
<1> QED
  BY <1>1, <1>2, <1>3, GotoEffect DEF finalize_library_delete, DeleteStep, SameFiles, LeavesOthers,
     LibraryRecords, copy, files

LEMMA CommitEffect ==
    ASSUME LibraryTypeOK, LibraryRecords, NEW o \in Ops, commit_library_delete_if_revision(o)
    PROVE  /\ up /\ up' = up /\ mem' = mem /\ memRev' = memRev /\ adopted' = adopted /\ dl' = dl
           /\ media' = media /\ pend' = pend /\ claimed' = claimed /\ lease' = lease
           /\ SameFiles /\ LeavesOthers(o)
           /\ op[o].pc = "commit" /\ op'[o].batch = op[o].batch /\ op'[o].todo = op[o].batch
           /\ op'[o].at = op[o].at /\ op'[o].kept = op[o].kept /\ op'[o].expected = op[o].expected
           /\ \/ /\ SameMishaps /\ diskRev = op[o].expected /\ op'[o].pc = "cleanup"
                 /\ row' = Without(row, op[o].batch)
                 /\ diskRev' = IF \E e \in op[o].batch : row[e] # "absent" THEN diskRev + 1 ELSE diskRev
                 /\ op'[o].committed = diskRev'
                 /\ \A e \in Entries :
                      intent'[o][e] = IF intent[o][e] = "staged" THEN "committed" ELSE intent[o][e]
              \/ /\ SameMishaps \/ Faulted
                 /\ op'[o].pc = "rollback" /\ op'[o].committed = op[o].committed
                 /\ row' = row /\ diskRev' = diskRev /\ intent' = intent
<1> DEFINE batch == op[o].batch
           removed == \E e \in batch : row[e] # "absent"
           refused == op' = [op EXCEPT ![o].pc = "rollback", ![o].todo = batch]
<1>1. /\ up /\ up' = up /\ mem' = mem /\ memRev' = memRev /\ adopted' = adopted /\ dl' = dl
      /\ media' = media /\ pend' = pend /\ claimed' = claimed /\ lease' = lease
      /\ SameFiles /\ op[o].pc = "commit"
  BY DEF commit_library_delete_if_revision, SameFiles, files, copy
<1>2. CASE /\ RevisionIs(op[o].expected)
           /\ row' = [e \in Entries |-> IF e \in batch THEN "absent" ELSE row[e]]
           /\ diskRev' = IF removed THEN diskRev + 1 ELSE diskRev
           /\ intent' = [intent EXCEPT ![o] =
                           [e \in Entries |-> IF @[e] = "staged" THEN "committed" ELSE @[e]]]
           /\ op' = [op EXCEPT ![o].pc = "cleanup", ![o].todo = batch, ![o].committed = diskRev']
           /\ UNCHANGED used
  <2>1. diskRev' \in Nat
    BY <1>2 DEF LibraryTypeOK
  <2>2. /\ op' \in [Ops -> DeleteRecords] /\ \A p \in Ops \ {o} : op'[p] = op[p]
        /\ op'[o].pc = "cleanup" /\ op'[o].batch = batch /\ op'[o].todo = batch
        /\ op'[o].at = op[o].at /\ op'[o].expected = op[o].expected
        /\ op'[o].kept = op[o].kept /\ op'[o].committed = diskRev'
    BY <1>2, <2>1 DEF LibraryRecords, DeleteRecords, DeletePlaces
  <2>3. /\ intent' \in [Ops -> [Entries -> {"none", "staged", "committed"}]]
        /\ \A p \in Ops \ {o} : intent'[p] = intent[p]
        /\ \A e \in Entries :
             intent'[o][e] = IF intent[o][e] = "staged" THEN "committed" ELSE intent[o][e]
    BY <1>2 DEF LibraryTypeOK
  <2> QED
    BY <1>1, <1>2, <2>2, <2>3 DEF RevisionIs, SameMishaps, LeavesOthers, LibraryRecords, Without
<1>3. CASE refused /\ (Spend("faults") \/ UNCHANGED used) /\ UNCHANGED <<row, diskRev, intent>>
  <2>1. /\ op' \in [Ops -> DeleteRecords] /\ \A p \in Ops \ {o} : op'[p] = op[p]
        /\ op'[o].pc = "rollback" /\ op'[o].batch = batch /\ op'[o].todo = batch
        /\ op'[o].at = op[o].at /\ op'[o].expected = op[o].expected
        /\ op'[o].kept = op[o].kept /\ op'[o].committed = op[o].committed
    BY <1>3 DEF LibraryRecords, DeleteRecords, DeletePlaces
  <2>2. SameMishaps \/ Faulted
    BY <1>3, FaultEffect DEF SameMishaps, LibraryRecords
  <2> QED
    BY <1>1, <1>3, <2>1, <2>2 DEF LeavesOthers, LibraryTypeOK
<1> QED
  BY <1>2, <1>3 DEF commit_library_delete_if_revision

LEMMA ReleaseEffect ==
    ASSUME LibraryTypeOK, LibraryRecords, NEW o \in Ops, release_library_delete_keys(o)
    PROVE  /\ up /\ up' = up /\ row' = row /\ diskRev' = diskRev /\ adopted' = adopted /\ dl' = dl
           /\ media' = media /\ pend' = pend /\ claimed' = claimed \ op[o].batch /\ lease' = lease
           /\ SameFiles /\ SameMishaps /\ LeavesOthers(o) /\ intent' = intent
           /\ op[o].pc \in {"settle", "fail"} /\ op'[o].pc = "done"
           /\ op'[o].batch = op[o].batch /\ op'[o].todo = op[o].todo
           /\ \/ /\ op[o].pc = "settle" /\ mem' = Without(mem, op[o].batch)
                 /\ memRev' = op[o].committed
              \/ op[o].pc = "fail" /\ mem' = mem /\ memRev' = memRev
<1>1. "done" \in DeletePlaces /\ Goto(o, "done")
  BY DEF DeletePlaces, release_library_delete_keys
<1>2. \/ /\ op[o].pc = "settle" /\ mem' = Without(mem, op[o].batch) /\ memRev' = op[o].committed
      \/ op[o].pc = "fail" /\ mem' = mem /\ memRev' = memRev
  BY DEF release_library_delete_keys, Without
<1> QED
  BY <1>1, <1>2, GotoEffect DEF release_library_delete_keys, SameFiles, SameMishaps, LeavesOthers,
     LibraryTypeOK, LibraryRecords, appStore, files

LEMMA IdleFacts == /\ IdleOp \in DeleteRecords /\ IdleOp.kept = TRUE /\ IdleOp.pc = "idle"
                   /\ IdleOp.batch = {} /\ IdleOp.todo = {}
  BY DEF IdleOp, DeleteRecords, DeletePlaces

LEMMA CommandEffect ==
    ASSUME LibraryTypeOK, LibraryRecords, NEW o \in Ops, NEW batch \in SUBSET Entries,
           remove_library_entries(o, batch)
    PROVE  /\ up /\ up' = up /\ row' = row /\ diskRev' = diskRev /\ adopted' = adopted /\ dl' = dl
           /\ mem' = mem /\ memRev' = memRev /\ media' = media /\ pend' = pend /\ lease' = lease
           /\ claimed' \in SUBSET Entries
           /\ SameFiles /\ SameMishaps /\ LeavesOthers(o) /\ intent' = intent
           /\ op[o].pc = "idle" /\ (op[o].todo \subseteq op[o].batch => op'[o].todo \subseteq op'[o].batch)
           /\ \/ /\ op'[o].pc = "busy" /\ op'[o].batch = batch /\ op'[o].expected = memRev
                 /\ op'[o].kept = TRUE
                 /\ \A e \in batch : mem[e] # "absent"
              \/ op'[o].pc = "done" /\ op'[o].kept = op[o].kept /\ op'[o].todo = op[o].todo
                 /\ op'[o].batch = op[o].batch
<1>1. SameMishaps
  BY EventEffect DEF remove_library_entries, Kinds
<1>2. CASE /\ claimed' = claimed \cup batch
           /\ op' = [op EXCEPT ![o] = [IdleOp EXCEPT !.pc = "busy", !.batch = batch,
                                          !.todo = batch, !.expected = memRev]]
  <2> DEFINE n == [IdleOp EXCEPT !.pc = "busy", !.batch = batch, !.todo = batch, !.expected = memRev]
  <2>1. memRev \in Nat
    BY DEF LibraryTypeOK
  <2>2. IdleOp \in DeleteRecords /\ IdleOp.kept = TRUE
    BY IdleFacts
  <2>3. /\ n \in DeleteRecords /\ n.pc = "busy" /\ n.batch = batch /\ n.todo = batch
        /\ n.expected = memRev /\ n.kept = TRUE
    BY <2>1, <2>2 DEF DeleteRecords, DeletePlaces
  <2> HIDE DEF n
  <2>4. op' = [op EXCEPT ![o] = n]
    BY <1>2 DEF n
  <2> QED
    BY <1>1, <1>2, <2>3, <2>4, TurnEffect DEF remove_library_entries, SameFiles, LeavesOthers,
       LibraryTypeOK, LibraryRecords, appStore, files
<1>3. CASE Goto(o, "done") /\ UNCHANGED claimed
  <2>1. "done" \in DeletePlaces
    BY DEF DeletePlaces
  <2> QED
    BY <1>1, <1>3, <2>1, GotoEffect DEF remove_library_entries, SameFiles, LeavesOthers,
       LibraryTypeOK, LibraryRecords, appStore, files
<1> QED
  BY <1>2, <1>3 DEF remove_library_entries

-----------------------------------------------------------------------------
(* What the other steps do, and that each step keeps the invariant.        *)

(* The other deletes lose files at most; what was said of them holds on.   *)
FilesShrink(o) == \A p \in Ops \ {o}, e \in Entries :
    /\ <<p, e>> \in trash' => <<p, e>> \in trash
    /\ <<p, e>> \in marker' => <<p, e>> \in marker

LEMMA OthersFollow ==
    ASSUME LibraryInv, NEW o \in Ops, LeavesOthers(o), FilesShrink(o), diskRev \in Nat, diskRev' \in Nat,
           diskRev <= diskRev',
           DeleteInBounds(o)', IntentsFollow(o)', TrashFollows(o)'
    PROVE  \A p \in Ops : DeleteInBounds(p)' /\ IntentsFollow(p)' /\ TrashFollows(p)'
<1> SUFFICES ASSUME NEW p \in Ops \ {o}
             PROVE  DeleteInBounds(p)' /\ IntentsFollow(p)' /\ TrashFollows(p)'
  OBVIOUS
<1>1. op'[p] = op[p] /\ intent'[p] = intent[p]
  BY DEF LeavesOthers
<1>2. DeleteInBounds(p) /\ IntentsFollow(p) /\ TrashFollows(p) /\ op[p] \in DeleteRecords
  BY DEF LibraryInv, LibraryRecords
<1>3. DeleteInBounds(p)'
  <2>1. op[p].pc \in AfterCommit => op[p].committed \in 1..diskRev'
    BY <1>2 DEF DeleteInBounds, DeleteRecords
  <2> QED BY <1>1, <1>2, <2>1 DEF DeleteInBounds
<1>4. IntentsFollow(p)'
  BY <1>1, <1>2 DEF IntentsFollow
<1>5. TrashFollows(p)'
  BY <1>1, <1>2 DEF TrashFollows, FilesShrink, DeleteRecords
<1> QED
  BY <1>3, <1>4, <1>5

LEMMA QuietKeeps ==
    ASSUME LibraryInv, NEW o \in Ops, DeleteStep(o), FilesShrink(o),
           src' \subseteq Entries, trash' \subseteq Ops \X Entries, marker' \subseteq Ops \X Entries,
           used' \in [Kinds -> Nat],
           op'[o].todo \subseteq op[o].batch, op'[o].pc # "idle",
           op'[o].pc = "rename" => op'[o].at \subseteq op[o].batch,
           op'[o].pc = "abort" => op'[o].todo = {},
           IntentsFollow(o)', TrashFollows(o)',
           op'[o].pc \in BeforeCommit => op[o].pc \in BeforeCommit /\ op'[o].kept = op[o].kept,
           op'[o].pc \in AfterCommit => op[o].pc \in AfterCommit
    PROVE  LibraryInv'
<1>1. LibraryTypeOK'
  BY DEF LibraryInv, LibraryTypeOK, DeleteStep, LeavesOthers
<1>2. LibraryRecords'
  BY DEF LibraryInv, LibraryRecords, DeleteStep, LeavesOthers
<1>3. AtRest'
  BY DEF DeleteStep, AtRest
<1>4. \A d \in Deliverers : DeliveryInBounds(d)'
  BY DEF LibraryInv, DeleteStep, DeliveryInBounds
<1>5. DeleteInBounds(o)'
  BY DEF LibraryInv, DeleteStep, DeleteInBounds
<1>6. \A p \in Ops : DeleteInBounds(p)' /\ IntentsFollow(p)' /\ TrashFollows(p)'
  <2>1. diskRev \in Nat /\ diskRev' = diskRev /\ diskRev <= diskRev' /\ LeavesOthers(o)
    BY DEF LibraryInv, LibraryTypeOK, DeleteStep
  <2> QED BY <1>5, <2>1, OthersFollow
<1>7. CopyIsCurrent'
  <2> SUFFICES ASSUME ~adopted
               PROVE  /\ memRev = diskRev => mem = row
                      /\ \A p \in Ops : ReadsTrue(p)' /\ SettlesTrue(p)'
    BY DEF DeleteStep, CopyIsCurrent
  <2>1. memRev = diskRev => mem = row
    BY DEF LibraryInv, CopyIsCurrent
  <2> SUFFICES ASSUME NEW p \in Ops PROVE ReadsTrue(p)' /\ SettlesTrue(p)'
    BY <2>1
  <2>2. ReadsTrue(p) /\ SettlesTrue(p)
    BY DEF LibraryInv, CopyIsCurrent
  <2>3. /\ op'[p].batch = op[p].batch /\ op'[p].expected = op[p].expected
        /\ op'[p].committed = op[p].committed
        /\ op'[p].pc \in BeforeCommit => op[p].pc \in BeforeCommit
    BY DEF DeleteStep, LeavesOthers
  <2>4. \A q \in Ops : op'[q].pc \in AfterCommit => op[q].pc \in AfterCommit
    BY DEF DeleteStep, LeavesOthers
  <2>5. ReadsTrue(p)'
    BY <2>2, <2>3 DEF ReadsTrue, DeleteStep
  <2>6. SettlesTrue(p)'
    BY <2>2, <2>3, <2>4 DEF SettlesTrue, DeleteStep
  <2> QED BY <2>5, <2>6
<1> QED
  BY <1>1, <1>2, <1>3, <1>4, <1>6, <1>7 DEF LibraryInv

(* The parts of the invariant a step of a delete starts from.              *)
LEMMA DeleteFacts ==
    ASSUME LibraryInv, NEW o \in Ops
    PROVE  /\ LibraryTypeOK /\ LibraryRecords /\ DeleteInBounds(o) /\ IntentsFollow(o) /\ TrashFollows(o)
           /\ op[o] \in DeleteRecords
           /\ intent[o] \in [Entries -> {"none", "staged", "committed"}]
           /\ op[o].batch \subseteq Entries /\ op[o].todo \subseteq op[o].batch
  BY DEF LibraryInv, LibraryTypeOK, LibraryRecords, DeleteRecords, DeleteInBounds

LEMMA BusyKeeps ==
    ASSUME LibraryInv, NEW o \in Ops, entry_busy_reason(o)
    PROVE  LibraryInv'
<1>1. LibraryTypeOK /\ LibraryRecords
  BY DEF LibraryInv
<1>2. /\ DeleteStep(o) /\ SameFiles /\ SameMishaps /\ intent' = intent
      /\ op[o].pc = "busy" /\ op'[o].pc \in {"fail", "lease"}
      /\ op'[o].todo = op[o].todo /\ op'[o].at = op[o].at /\ op'[o].kept = op[o].kept
      /\ op'[o].batch = op[o].batch
  BY <1>1, BusyEffect DEF DeleteStep
<1>3. IntentsFollow(o)'
  BY <1>2, DeleteFacts DEF IntentsFollow, Unrecorded
<1>4. TrashFollows(o)'
  BY <1>2, DeleteFacts DEF TrashFollows, Untouched, SameFiles
<1> QED
  BY <1>2, <1>3, <1>4, DeleteFacts, QuietKeeps
     DEF SameFiles, SameMishaps, FilesShrink, LibraryTypeOK, BeforeCommit, AfterCommit

LEMMA LeaseKeeps ==
    ASSUME LibraryInv, NEW o \in Ops, acquire_operation_leases(o)
    PROVE  LibraryInv'
<1>1. LibraryTypeOK /\ LibraryRecords
  BY DEF LibraryInv
<1>2. /\ DeleteStep(o) /\ SameFiles /\ SameMishaps /\ intent' = intent
      /\ op[o].pc = "lease" /\ op'[o].pc \in {"fail", "stage"}
      /\ op'[o].todo = op[o].todo /\ op'[o].at = op[o].at /\ op'[o].kept = op[o].kept
      /\ op'[o].batch = op[o].batch
  BY <1>1, LeaseEffect DEF DeleteStep
<1>3. IntentsFollow(o)'
  BY <1>2, DeleteFacts DEF IntentsFollow, Unrecorded
<1>4. TrashFollows(o)'
  BY <1>2, DeleteFacts DEF TrashFollows, Untouched, SameFiles
<1> QED
  BY <1>2, <1>3, <1>4, DeleteFacts, QuietKeeps
     DEF SameFiles, SameMishaps, FilesShrink, LibraryTypeOK, BeforeCommit, AfterCommit

LEMMA MarkKeeps ==
    ASSUME LibraryInv, NEW o \in Ops, NEW e \in Entries, write_marker(o, e)
    PROVE  LibraryInv'
<1>1. LibraryTypeOK /\ LibraryRecords
  BY DEF LibraryInv
<1>2. /\ DeleteStep(o) /\ src' = src /\ trash' = trash /\ intent' = intent
      /\ op[o].pc = "stage" /\ e \in op[o].todo /\ op'[o].todo = op[o].todo
      /\ marker \subseteq marker' /\ marker' \subseteq marker \cup {<<o, e>>}
      /\ op'[o].pc \in {"rename", "recover"} /\ op'[o].batch = op[o].batch /\ op'[o].kept = op[o].kept
      /\ used' \in [Kinds -> Nat] /\ (op'[o].pc = "rename" => op'[o].at = {e})
  BY <1>1, MarkEffect DEF DeleteStep, SameMishaps, Faulted
<1>3. IntentsFollow(o)'
  BY <1>2, DeleteFacts DEF IntentsFollow, Unrecorded
<1>4. TrashFollows(o)'
  BY <1>2, DeleteFacts DEF TrashFollows, Untouched
<1> QED
  BY <1>2, <1>3, <1>4, DeleteFacts, QuietKeeps
     DEF FilesShrink, LibraryTypeOK, BeforeCommit, AfterCommit

LEMMA MoveKeeps ==
    ASSUME LibraryInv, NEW o \in Ops, NEW e \in Entries, move_to_trash(o, e)
    PROVE  LibraryInv'
<1>1. LibraryTypeOK /\ LibraryRecords
  BY DEF LibraryInv
<1>2. /\ DeleteStep(o) /\ marker' = marker /\ intent' = intent
      /\ op[o].pc = "rename" /\ op[o].at = {e} /\ op'[o].todo \subseteq op[o].todo
      /\ src' \subseteq src /\ trash' \subseteq trash \cup {<<o, e>>}
      /\ op'[o].pc \in {"stage", "record", "recover"} /\ op'[o].batch = op[o].batch /\ op'[o].kept = op[o].kept
      /\ used' \in [Kinds -> Nat]
  BY <1>1, MoveEffect DEF DeleteStep, SameMishaps, Faulted
<1>3. IntentsFollow(o)'
  BY <1>2, DeleteFacts DEF IntentsFollow, Unrecorded
<1>4. TrashFollows(o)'
  BY <1>2, DeleteFacts DEF TrashFollows, Untouched, DeleteInBounds
<1> QED
  BY <1>2, <1>3, <1>4, DeleteFacts, QuietKeeps
     DEF FilesShrink, LibraryTypeOK, BeforeCommit, AfterCommit

LEMMA RecoverKeeps ==
    ASSUME LibraryInv, NEW o \in Ops, recover_orphan_markers(o)
    PROVE  LibraryInv'
<1>1. LibraryTypeOK /\ LibraryRecords
  BY DEF LibraryInv
<1>2. /\ DeleteStep(o) /\ intent' = intent
      /\ op[o].pc = "recover" /\ op'[o].pc = "fail" /\ op'[o].todo = op[o].todo
      /\ op'[o].batch = op[o].batch /\ used' \in [Kinds -> Nat]
  BY <1>1, RecoverEffect DEF DeleteStep, SameMishaps
<1>3. trash' \subseteq trash /\ marker' \subseteq marker /\ src' \subseteq Entries
  <2>1. PICK done \in SUBSET Orphans :
           /\ trash' = trash \ done /\ marker' = marker \ done
           /\ src' = src \cup {x[2] : x \in done \cap trash}
    BY <1>1, RecoverEffect
  <2> QED
    BY <1>1, <2>1 DEF LibraryTypeOK
<1>4. IntentsFollow(o)'
  BY <1>2, DeleteFacts DEF IntentsFollow, Unrecorded
<1>5. TrashFollows(o)'
  BY <1>2, <1>3, DeleteFacts DEF TrashFollows, Untouched
<1> QED
  BY <1>2, <1>3, <1>4, <1>5, DeleteFacts, QuietKeeps
     DEF FilesShrink, LibraryTypeOK, BeforeCommit, AfterCommit

LEMMA RecordKeeps ==
    ASSUME LibraryInv, NEW o \in Ops, record_library_delete_intents(o)
    PROVE  LibraryInv'
<1>1. LibraryTypeOK /\ LibraryRecords
  BY DEF LibraryInv
<1>2. /\ DeleteStep(o) /\ SameFiles /\ op[o].pc = "record"
      /\ op'[o].batch = op[o].batch /\ used' \in [Kinds -> Nat]
      /\ \/ /\ op'[o].pc = "commit" /\ op'[o].kept = op[o].kept /\ op'[o].todo = op[o].todo
            /\ \A e \in Entries : intent'[o][e] = IF e \in op[o].batch THEN "staged" ELSE "none"
         \/ /\ op'[o].pc = "rollback" /\ op'[o].todo = op[o].batch
            /\ op'[o].kept = FALSE /\ intent' = intent
  BY <1>1, RecordEffect DEF DeleteStep, SameMishaps, Faulted
<1>3. IntentsFollow(o)'
  BY <1>2, DeleteFacts DEF IntentsFollow, Unrecorded
<1>4. TrashFollows(o)'
  BY <1>2, DeleteFacts DEF TrashFollows, Untouched, SameFiles
<1> QED
  BY <1>2, <1>3, <1>4, DeleteFacts, QuietKeeps
     DEF SameFiles, FilesShrink, LibraryTypeOK, BeforeCommit, AfterCommit

LEMMA RollbackKeeps ==
    ASSUME LibraryInv, NEW o \in Ops, NEW e \in Entries, rollback_staged(o, e)
    PROVE  LibraryInv'
<1>1. LibraryTypeOK /\ LibraryRecords
  BY DEF LibraryInv
<1>2. /\ DeleteStep(o) /\ intent' = intent /\ marker' = marker \ {<<o, e>>}
      /\ op[o].pc = "rollback" /\ e \in op[o].todo /\ op'[o].todo = op[o].todo \ {e}
      /\ op'[o].kept = op[o].kept /\ op'[o].batch = op[o].batch
      /\ op'[o].pc = IF op'[o].todo = {} THEN "abort" ELSE "rollback"
      /\ op'[o].at \in {op[o].at, {NoOne}}
  BY <1>1, RollbackEffect DEF DeleteStep
<1>5. /\ trash' \subseteq trash /\ src' \subseteq src \cup {e}
      /\ op'[o].at # {NoOne} => trash' = trash \ {<<o, e>>}
  <2>1. \/ trash' = trash \ {<<o, e>>} /\ src' = IF <<o, e>> \in trash THEN src \cup {e} ELSE src
        \/ trash' = trash /\ src' = src /\ op'[o].at = {NoOne}
    BY <1>1, RollbackEffect
  <2> QED BY <2>1
<1>6. used' \in [Kinds -> Nat]
  BY <1>1, RollbackEffect DEF SameMishaps, Faulted
<1>3. IntentsFollow(o)'
  BY <1>2, DeleteFacts DEF IntentsFollow, Unrecorded
<1>4. TrashFollows(o)'
  BY <1>2, <1>5, DeleteFacts DEF TrashFollows, Untouched
<1> QED
  BY <1>2, <1>3, <1>4, <1>5, <1>6, DeleteFacts, QuietKeeps
     DEF FilesShrink, LibraryTypeOK, BeforeCommit, AfterCommit

LEMMA AbortKeeps ==
    ASSUME LibraryInv, NEW o \in Ops, abort_library_delete(o)
    PROVE  LibraryInv'
<1>1. LibraryTypeOK /\ LibraryRecords
  BY DEF LibraryInv
<1>2. /\ DeleteStep(o) /\ SameFiles /\ op[o].pc = "abort" /\ op'[o].pc = "fail"
      /\ op'[o].todo = op[o].todo /\ op'[o].batch = op[o].batch /\ used' \in [Kinds -> Nat]
      /\ \A e \in Entries : intent[o][e] = "none" => intent'[o][e] = "none"
  BY <1>1, AbortEffect DEF DeleteStep, SameMishaps, Faulted
<1>3. IntentsFollow(o)'
  BY <1>2, DeleteFacts DEF IntentsFollow, Unrecorded
<1>4. TrashFollows(o)'
  BY <1>2, DeleteFacts DEF TrashFollows, Untouched, SameFiles
<1> QED
  BY <1>2, <1>3, <1>4, DeleteFacts, QuietKeeps
     DEF SameFiles, FilesShrink, LibraryTypeOK, BeforeCommit, AfterCommit

LEMMA CleanupKeeps ==
    ASSUME LibraryInv, NEW o \in Ops, NEW e \in Entries, cleanup_committed_delete(o, e)
    PROVE  LibraryInv'
<1>1. LibraryTypeOK /\ LibraryRecords
  BY DEF LibraryInv
<1>2. /\ DeleteStep(o) /\ src' = src /\ intent' = intent /\ marker' \subseteq marker
      /\ op[o].pc = "cleanup" /\ op'[o].todo \subseteq op[o].todo /\ op'[o].batch = op[o].batch
      /\ op'[o].pc \in {"cleanup", "finalize", "settle"}
      /\ trash' \subseteq trash /\ used' \in [Kinds -> Nat]
  BY <1>1, CleanupEffect DEF DeleteStep, SameMishaps, Faulted
<1>3. IntentsFollow(o)'
  BY <1>2, DeleteFacts DEF IntentsFollow, Unrecorded
<1>4. TrashFollows(o)'
  BY <1>2, DeleteFacts DEF TrashFollows, Untouched
<1> QED
  BY <1>2, <1>3, <1>4, DeleteFacts, QuietKeeps
     DEF FilesShrink, LibraryTypeOK, BeforeCommit, AfterCommit

LEMMA FinalizeKeeps ==
    ASSUME LibraryInv, NEW o \in Ops, finalize_library_delete(o)
    PROVE  LibraryInv'
<1>1. LibraryTypeOK /\ LibraryRecords
  BY DEF LibraryInv
<1>2. /\ DeleteStep(o) /\ SameFiles /\ op[o].pc = "finalize" /\ op'[o].pc = "settle"
      /\ op'[o].todo = op[o].todo /\ op'[o].batch = op[o].batch /\ used' \in [Kinds -> Nat]
      /\ intent' = intent \/ \A e \in Entries : intent'[o][e] = "none"
  BY <1>1, FinalizeEffect DEF DeleteStep, SameMishaps, Faulted
<1>3. IntentsFollow(o)'
  BY <1>2, DeleteFacts DEF IntentsFollow, Unrecorded
<1>4. TrashFollows(o)'
  BY <1>2, DeleteFacts DEF TrashFollows, Untouched, SameFiles
<1> QED
  BY <1>2, <1>3, <1>4, DeleteFacts, QuietKeeps
     DEF SameFiles, FilesShrink, LibraryTypeOK, BeforeCommit, AfterCommit

(* A commit is made from the copy in memory that the command read, so it   *)
(* takes rows away and is the only one until memory follows.               *)
LEMMA CommitKeeps ==
    ASSUME LibraryInv, NEW o \in Ops, commit_library_delete_if_revision(o)
    PROVE  LibraryInv'
<1>1. LibraryTypeOK /\ LibraryRecords
  BY DEF LibraryInv
<1>2. /\ up /\ up' = up /\ mem' = mem /\ memRev' = memRev /\ adopted' = adopted /\ dl' = dl
      /\ media' = media /\ pend' = pend /\ claimed' = claimed /\ lease' = lease
      /\ SameFiles /\ LeavesOthers(o)
      /\ op[o].pc = "commit" /\ op'[o].batch = op[o].batch /\ op'[o].todo = op[o].batch
      /\ op'[o].at = op[o].at /\ op'[o].kept = op[o].kept /\ op'[o].expected = op[o].expected
  BY <1>1, CommitEffect
<1>3. CASE op'[o].pc = "cleanup"
  <2>1. /\ diskRev = op[o].expected /\ op'[o].pc = "cleanup"
        /\ row' = Without(row, op[o].batch)
        /\ diskRev' = IF \E e \in op[o].batch : row[e] # "absent" THEN diskRev + 1 ELSE diskRev
        /\ op'[o].committed = diskRev' /\ used' \in [Kinds -> Nat]
        /\ \A e \in Entries :
             intent'[o][e] = IF intent[o][e] = "staged" THEN "committed" ELSE intent[o][e]
    BY <1>1, <1>3, CommitEffect DEF SameMishaps
  <2>2. diskRev \in Nat /\ memRev \in 1..diskRev /\ diskRev' \in Nat /\ diskRev <= diskRev'
        /\ diskRev' \in 1..diskRev'
    BY <1>1, <2>1 DEF LibraryTypeOK
  <2>3. LibraryTypeOK'
    <3>1. row' \in [Entries -> Contents]
      BY <1>1, <2>1 DEF LibraryTypeOK, Without, Contents
    <3>2. memRev' \in 1..diskRev'
      BY <1>2, <2>2
    <3> QED BY <1>1, <1>2, <2>2, <3>1, <3>2 DEF LibraryTypeOK, LeavesOthers, SameFiles
  <2>4. LibraryRecords'
    BY <1>1, <1>2, <2>1 DEF LibraryRecords, LeavesOthers
  <2>5. AtRest'
    BY <1>2 DEF AtRest
  <2>6. \A d \in Deliverers : DeliveryInBounds(d)'
    BY <1>1, <1>2, <2>2 DEF LibraryInv, DeliveryInBounds, LibraryRecords, DeliveryRecords
  <2>7. DeleteInBounds(o)' /\ IntentsFollow(o)' /\ TrashFollows(o)'
    <3>1. DeleteInBounds(o)'
      BY <1>2, <2>1, <2>2 DEF DeleteInBounds, BeforeCommit
    <3>2. IntentsFollow(o)'
      BY <1>2, <2>1, DeleteFacts DEF IntentsFollow, Unrecorded
    <3>3. TrashFollows(o)'
      BY <1>2, <2>1, DeleteFacts DEF TrashFollows, SameFiles, Untouched
    <3> QED BY <3>1, <3>2, <3>3
  <2>8. \A p \in Ops : DeleteInBounds(p)' /\ IntentsFollow(p)' /\ TrashFollows(p)'
    BY <1>2, <2>2, <2>7, OthersFollow DEF FilesShrink, SameFiles
  <2>9. CopyIsCurrent'
    <3> SUFFICES ASSUME ~adopted
                 PROVE  /\ memRev # diskRev'
                        /\ \A p \in Ops : ReadsTrue(p)' /\ SettlesTrue(p)'
      BY <1>2 DEF CopyIsCurrent
    <3>1. memRev = diskRev /\ op[o].expected = memRev
      BY <1>2, <2>1, <2>2 DEF LibraryInv, CopyIsCurrent, ReadsTrue, BeforeCommit
    <3>2. mem = row /\ \A e \in op[o].batch : row[e] # "absent"
      BY <1>2, <3>1 DEF LibraryInv, CopyIsCurrent, ReadsTrue, BeforeCommit
    <3>3. op[o].batch # {}
      BY <1>2, DeleteFacts DEF DeleteInBounds, BeforeCommit
    <3>4. diskRev' = diskRev + 1
      BY <2>1, <3>2, <3>3
    <3>5. \A p \in Ops : op[p].pc \notin AfterCommit
      <4> SUFFICES ASSUME NEW p \in Ops, op[p].pc \in AfterCommit PROVE FALSE
        OBVIOUS
      <4>1. memRev < op[p].committed /\ op[p].committed \in 1..diskRev
        BY DEF LibraryInv, CopyIsCurrent, SettlesTrue, DeleteInBounds
      <4> QED BY <2>2, <3>1, <4>1
    <3>6. \A p \in Ops \ {o} : op'[p] = op[p]
      BY <1>2 DEF LeavesOthers
    <3>7. ASSUME NEW p \in Ops PROVE ReadsTrue(p)'
      <4>1. CASE p = o
        BY <1>3, <4>1 DEF ReadsTrue, BeforeCommit
      <4>2. CASE p # o
        BY <1>2, <3>6, <4>2 DEF LibraryInv, CopyIsCurrent, ReadsTrue
      <4> QED BY <4>1, <4>2
    <3>8. \A q \in Ops : op'[q].pc \in AfterCommit => q = o
      BY <3>5, <3>6
    <3>9. ASSUME NEW p \in Ops PROVE SettlesTrue(p)'
      <4> SUFFICES ASSUME op'[p].pc \in AfterCommit
                   PROVE  /\ memRev' < op'[p].committed
                          /\ row' = Without(mem, op[p].batch)'
                          /\ \A q \in Ops : op'[q].pc \in AfterCommit => q = p
        BY DEF SettlesTrue
      <4>1. p = o
        BY <3>8
      <4> QED BY <1>2, <2>1, <2>2, <3>1, <3>2, <3>4, <3>8, <4>1 DEF Without
    <3> QED BY <2>2, <3>1, <3>4, <3>7, <3>9
  <2> QED
    BY <2>3, <2>4, <2>5, <2>6, <2>8, <2>9 DEF LibraryInv
<1>4. CASE op'[o].pc = "rollback"
  <2>1. /\ op'[o].committed = op[o].committed /\ used' \in [Kinds -> Nat]
        /\ row' = row /\ diskRev' = diskRev /\ intent' = intent
    BY <1>1, <1>4, CommitEffect DEF SameMishaps, Faulted
  <2>2. DeleteStep(o)
    BY <1>1, <1>2, <2>1 DEF DeleteStep, LibraryTypeOK
  <2>3. IntentsFollow(o)'
    BY <1>2, <1>4, <2>1, DeleteFacts DEF IntentsFollow, Unrecorded, DeleteInBounds, BeforeCommit
  <2>4. TrashFollows(o)'
    BY <1>2, <1>4, DeleteFacts DEF TrashFollows, SameFiles, Untouched
  <2> QED
    BY <1>1, <1>2, <1>4, <2>1, <2>2, <2>3, <2>4, DeleteFacts, QuietKeeps
       DEF SameFiles, FilesShrink, LibraryTypeOK, BeforeCommit, AfterCommit
<1> QED
  BY <1>1, <1>3, <1>4, CommitEffect

LEMMA ReleaseKeeps ==
    ASSUME LibraryInv, NEW o \in Ops, release_library_delete_keys(o)
    PROVE  LibraryInv'
<1>1. LibraryTypeOK /\ LibraryRecords
  BY DEF LibraryInv
<1>2. /\ up /\ up' = up /\ row' = row /\ diskRev' = diskRev /\ adopted' = adopted /\ dl' = dl
      /\ media' = media /\ pend' = pend /\ claimed' = claimed \ op[o].batch /\ lease' = lease
      /\ SameFiles /\ used' \in [Kinds -> Nat] /\ LeavesOthers(o) /\ intent' = intent
      /\ op[o].pc \in {"settle", "fail"} /\ op'[o].pc = "done"
      /\ op'[o].batch = op[o].batch /\ op'[o].todo = op[o].todo
  BY <1>1, ReleaseEffect DEF SameMishaps
<1>3. \/ op[o].pc = "settle" /\ mem' = Without(mem, op[o].batch) /\ memRev' = op[o].committed
      \/ op[o].pc = "fail" /\ mem' = mem /\ memRev' = memRev
  BY <1>1, ReleaseEffect
<1>4. LibraryTypeOK'
  <2>1. op[o].pc = "settle" => op[o].committed \in 1..diskRev
    BY DeleteFacts DEF DeleteInBounds, AfterCommit
  <2>2. mem' \in [Entries -> Contents]
    BY <1>1, <1>3 DEF LibraryTypeOK, Without, Contents
  <2> QED BY <1>1, <1>2, <1>3, <2>1, <2>2 DEF LibraryTypeOK, SameFiles
<1>5. LibraryRecords'
  BY <1>1, <1>2 DEF LibraryRecords, LeavesOthers
<1>6. AtRest'
  BY <1>2 DEF AtRest
<1>7. \A d \in Deliverers : DeliveryInBounds(d)'
  BY <1>2 DEF LibraryInv, DeliveryInBounds
<1>8. \A p \in Ops : DeleteInBounds(p)' /\ IntentsFollow(p)' /\ TrashFollows(p)'
  <2>1. DeleteInBounds(o)' /\ IntentsFollow(o)' /\ TrashFollows(o)'
    BY <1>2, DeleteFacts DEF DeleteInBounds, IntentsFollow, TrashFollows, Unrecorded, BeforeCommit,
       AfterCommit, Untouched
  <2> QED
    BY <1>1, <1>2, <2>1, OthersFollow DEF FilesShrink, SameFiles, LibraryTypeOK
<1>9. CopyIsCurrent'
  <2> SUFFICES ASSUME ~adopted
               PROVE  /\ memRev' = diskRev => mem' = row
                      /\ \A p \in Ops : ReadsTrue(p)' /\ SettlesTrue(p)'
    BY <1>2 DEF CopyIsCurrent
  <2>1. CopyIsCurrent /\ \A p \in Ops : ReadsTrue(p) /\ SettlesTrue(p)
    BY DEF LibraryInv, CopyIsCurrent
  <2>2. \A p \in Ops \ {o} : op'[p] = op[p]
    BY <1>2 DEF LeavesOthers
  <2>3. o \in Ops /\ op'[o].pc \notin BeforeCommit /\ op'[o].pc \notin AfterCommit
    BY <1>2 DEF BeforeCommit, AfterCommit
  <2>4. CASE op[o].pc = "fail" /\ mem' = mem /\ memRev' = memRev
    BY <1>2, <2>1, <2>2, <2>3, <2>4 DEF CopyIsCurrent, ReadsTrue, SettlesTrue
  <2>5. CASE op[o].pc = "settle" /\ mem' = Without(mem, op[o].batch) /\ memRev' = op[o].committed
    <3>1. memRev < memRev' /\ (memRev' = diskRev => row = mem')
          /\ \A p \in Ops : op[p].pc \in AfterCommit => p = o
      BY <2>1, <2>5 DEF SettlesTrue, AfterCommit
    <3>2. \A p \in Ops : op'[p].pc \notin AfterCommit
      BY <2>2, <2>3, <3>1
    <3>3. ASSUME NEW p \in Ops PROVE ReadsTrue(p)'
      <4> SUFFICES ASSUME op'[p].pc \in BeforeCommit
                   PROVE  op'[p].expected < memRev'
        <5>1. memRev' \in Nat /\ op'[p].expected \in Nat
          BY <1>4, <1>5 DEF LibraryTypeOK, LibraryRecords, DeleteRecords
        <5> QED BY <5>1 DEF ReadsTrue
      <4>1. op'[p] = op[p] /\ op[p].expected <= memRev
        BY <2>1, <2>2, <2>3 DEF ReadsTrue
      <4>2. op[p].expected \in Nat /\ memRev \in Nat /\ memRev' \in Nat
        BY <1>1, <1>4 DEF LibraryTypeOK, LibraryRecords, DeleteRecords
      <4> QED BY <3>1, <4>1, <4>2
    <3> QED BY <3>1, <3>2, <3>3 DEF SettlesTrue
  <2> QED BY <1>3, <2>4, <2>5
<1> QED
  BY <1>4, <1>5, <1>6, <1>7, <1>8, <1>9 DEF LibraryInv

LEMMA CommandKeeps ==
    ASSUME LibraryInv, NEW o \in Ops, NEW batch \in (SUBSET Entries) \ {{}},
           remove_library_entries(o, batch)
    PROVE  LibraryInv'
<1>1. LibraryTypeOK /\ LibraryRecords
  BY DEF LibraryInv
<1>2. /\ up /\ up' = up /\ row' = row /\ diskRev' = diskRev /\ adopted' = adopted /\ dl' = dl
      /\ mem' = mem /\ memRev' = memRev /\ media' = media /\ pend' = pend /\ lease' = lease
      /\ claimed' \in SUBSET Entries
      /\ SameFiles /\ used' \in [Kinds -> Nat] /\ LeavesOthers(o) /\ intent' = intent
      /\ op[o].pc = "idle"
  BY <1>1, CommandEffect DEF SameMishaps
<1>3. /\ op'[o].todo \subseteq op'[o].batch
      /\ \/ /\ op'[o].pc = "busy" /\ op'[o].batch = batch /\ op'[o].expected = memRev
            /\ op'[o].kept = TRUE
            /\ \A e \in batch : mem[e] # "absent"
         \/ op'[o].pc = "done" /\ op'[o].batch = op[o].batch
  BY <1>1, CommandEffect, DeleteFacts
<1>4. LibraryTypeOK'
  BY <1>1, <1>2 DEF LibraryTypeOK, SameFiles
<1>5. LibraryRecords'
  BY <1>1, <1>2 DEF LibraryRecords, LeavesOthers
<1>6. AtRest'
  BY <1>2 DEF AtRest
<1>7. \A d \in Deliverers : DeliveryInBounds(d)'
  BY <1>2 DEF LibraryInv, DeliveryInBounds
<1>8. \A p \in Ops : DeleteInBounds(p)' /\ IntentsFollow(p)' /\ TrashFollows(p)'
  <2>1. DeleteInBounds(o)' /\ IntentsFollow(o)' /\ TrashFollows(o)'
    <3>1. DeleteInBounds(o)'
      <4>1. CASE op'[o].pc = "busy" /\ op'[o].batch = batch /\ op'[o].kept = TRUE
        BY <1>3, <4>1 DEF DeleteInBounds, AfterCommit
      <4>2. CASE op'[o].pc = "done"
        BY <1>3, <4>2 DEF DeleteInBounds, BeforeCommit, AfterCommit
      <4> QED BY <1>3, <4>1, <4>2
    <3>2. IntentsFollow(o)'
      BY <1>2, <1>3, DeleteFacts DEF IntentsFollow, Unrecorded
    <3>3. TrashFollows(o)'
      BY <1>2, <1>3, DeleteFacts DEF TrashFollows, Untouched, SameFiles
    <3> QED BY <3>1, <3>2, <3>3
  <2> QED
    BY <1>1, <1>2, <2>1, OthersFollow DEF FilesShrink, SameFiles, LibraryTypeOK
<1>9. CopyIsCurrent'
  <2> SUFFICES ASSUME ~adopted
               PROVE  /\ memRev = diskRev => mem = row
                      /\ \A p \in Ops : ReadsTrue(p)' /\ SettlesTrue(p)'
    BY <1>2 DEF CopyIsCurrent
  <2>1. CopyIsCurrent /\ \A p \in Ops : ReadsTrue(p) /\ SettlesTrue(p)
    BY DEF LibraryInv, CopyIsCurrent
  <2>2. \A p \in Ops \ {o} : op'[p] = op[p]
    BY <1>2 DEF LeavesOthers
  <2>3. op'[o].pc \notin AfterCommit
    BY <1>3 DEF AfterCommit
  <2>4. \A p \in Ops : SettlesTrue(p)'
    BY <1>2, <2>1, <2>2, <2>3 DEF SettlesTrue
  <2>5. ReadsTrue(o)'
    <3>1. memRev \in Nat
      BY <1>1 DEF LibraryTypeOK
    <3> QED BY <1>2, <1>3, <3>1 DEF ReadsTrue, BeforeCommit
  <2>6. \A p \in Ops \ {o} : ReadsTrue(p)'
    BY <1>2, <2>1, <2>2 DEF ReadsTrue
  <2> QED BY <2>1, <2>4, <2>5, <2>6 DEF CopyIsCurrent
<1> QED
  BY <1>4, <1>5, <1>6, <1>7, <1>8, <1>9 DEF LibraryInv

(* A step of somebody else: no delete moves, and neither do its files.     *)
OtherStep ==
    /\ up /\ up' = up /\ op' = op /\ intent' = intent /\ trash' = trash /\ marker' = marker
    /\ src \subseteq src' /\ claimed' = claimed

LEMMA OtherKeeps ==
    ASSUME LibraryInv, OtherStep, LibraryTypeOK', dl' \in [Deliverers -> DeliveryRecords],
           media' \in Nat, used' \in [Kinds -> Nat], diskRev <= diskRev',
           \A d \in Deliverers : DeliveryInBounds(d)',
           CopyIsCurrent'
    PROVE  LibraryInv'
<1>1. LibraryRecords'
  BY DEF LibraryInv, LibraryRecords, OtherStep
<1>2. AtRest'
  BY DEF AtRest, OtherStep
<1>3. ASSUME NEW o \in Ops PROVE DeleteInBounds(o)' /\ IntentsFollow(o)' /\ TrashFollows(o)'
  <2>1. DeleteInBounds(o) /\ IntentsFollow(o) /\ TrashFollows(o) /\ op[o] \in DeleteRecords
    BY DeleteFacts
  <2>2. diskRev \in Nat /\ diskRev' \in Nat
    BY DEF LibraryInv, LibraryTypeOK
  <2>3. op[o].pc \in AfterCommit => op[o].committed \in 1..diskRev'
    BY <2>1, <2>2 DEF DeleteInBounds, DeleteRecords
  <2>4. DeleteInBounds(o)'
    BY <2>1, <2>3 DEF DeleteInBounds, OtherStep
  <2>5. IntentsFollow(o)' /\ TrashFollows(o)'
    BY <2>1 DEF IntentsFollow, TrashFollows, OtherStep
  <2> QED BY <2>4, <2>5
<1> QED
  BY <1>1, <1>2, <1>3 DEF LibraryInv

SameRows == row' = row /\ diskRev' = diskRev /\ mem' = mem /\ memRev' = memRev /\ adopted' = adopted

LEMMA SameRowsCurrent ==
    ASSUME CopyIsCurrent, SameRows, op' = op
    PROVE  CopyIsCurrent'
  BY DEF CopyIsCurrent, SameRows, ReadsTrue, SettlesTrue

(* Whoever writes from a copy at the revision of the store finds no delete *)
(* between its commit and the turn of memory.                              *)
LEMMA NobodyCommitted ==
    ASSUME LibraryInv, ~adopted, memRev = diskRev
    PROVE  \A o \in Ops : op[o].pc \notin AfterCommit
<1> SUFFICES ASSUME NEW o \in Ops, op[o].pc \in AfterCommit PROVE FALSE
  OBVIOUS
<1>1. memRev < op[o].committed /\ op[o].committed \in 1..diskRev /\ diskRev \in Nat
  BY DEF LibraryInv, LibraryTypeOK, CopyIsCurrent, SettlesTrue, DeleteInBounds
<1> QED BY <1>1

LEMMA DownloadKeeps ==
    ASSUME LibraryInv, NEW e \in Entries, download_session(e)
    PROVE  LibraryInv'
<1>1. SameMishaps
  BY EventEffect DEF LibraryInv, download_session, Kinds
<1>2. OtherStep /\ SameRows /\ dl' = dl /\ media' = media /\ lease' = lease
      /\ pend' = pend \cup {e} /\ src' = src \cup {e}
  BY DEF download_session, OtherStep, SameRows, appStore, copy
<1>3. LibraryTypeOK' /\ diskRev <= diskRev'
  BY <1>2 DEF LibraryInv, LibraryTypeOK, OtherStep, SameRows
<1>4. CopyIsCurrent' /\ \A d \in Deliverers : DeliveryInBounds(d)'
  BY <1>2, SameRowsCurrent DEF LibraryInv, DeliveryInBounds, SameRows, OtherStep
<1> QED
  BY <1>1, <1>2, <1>3, <1>4, OtherKeeps DEF LibraryInv, LibraryRecords, SameMishaps

LEMMA UploadKeeps ==
    ASSUME LibraryInv, NEW e \in Entries, acquire_upload_lease(e) \/ release_upload_lease(e)
    PROVE  LibraryInv'
<1>1. SameMishaps
  BY EventEffect DEF LibraryInv, LibraryRecords, acquire_upload_lease, release_upload_lease, Kinds,
     SameMishaps
<1>2. OtherStep /\ SameRows /\ dl' = dl /\ media' = media /\ pend' = pend /\ src' = src
      /\ lease' \in [Entries -> Ops \cup {NoOne, Uploader}]
  BY DEF acquire_upload_lease, release_upload_lease, OtherStep, SameRows, copy, files, LibraryInv,
     LibraryTypeOK
<1>3. LibraryTypeOK' /\ diskRev <= diskRev'
  BY <1>2 DEF LibraryInv, LibraryTypeOK, OtherStep, SameRows
<1>4. CopyIsCurrent' /\ \A d \in Deliverers : DeliveryInBounds(d)'
  BY <1>2, SameRowsCurrent DEF LibraryInv, DeliveryInBounds, SameRows, OtherStep
<1> QED
  BY <1>1, <1>2, <1>3, <1>4, OtherKeeps DEF LibraryInv, LibraryRecords, SameMishaps

LEMMA ApplyKeeps ==
    ASSUME LibraryInv, NEW d \in Deliverers, NEW e \in Entries, apply_download_completion(d, e)
    PROVE  LibraryInv'
<1>1. OtherStep /\ SameRows /\ media' = media /\ pend' = pend /\ src' = src /\ lease' = lease
      /\ used' = used
  BY DEF apply_download_completion, OtherStep, SameRows, appStore, copy, files
<1>2. LibraryTypeOK' /\ diskRev <= diskRev'
  BY <1>1 DEF LibraryInv, LibraryTypeOK, OtherStep, SameRows
<1>3. CopyIsCurrent'
  BY <1>1, SameRowsCurrent DEF LibraryInv, OtherStep
<1> DEFINE n == [pc |-> "write", at |-> e, expected |-> memRev, seen |-> mem[e]]
<1>4. n \in DeliveryRecords /\ n.at = e /\ n.expected = memRev /\ memRev <= diskRev
  BY DEF DeliveryRecords, LibraryInv, LibraryTypeOK
<1>5. dl' = [dl EXCEPT ![d] = n]
  BY DEF apply_download_completion
<1> HIDE DEF n
<1>6. dl' \in [Deliverers -> DeliveryRecords]
  BY <1>4, <1>5 DEF LibraryInv, LibraryRecords
<1>7. \A c \in Deliverers : DeliveryInBounds(c)'
  BY <1>1, <1>4, <1>5 DEF LibraryInv, LibraryRecords, DeliveryInBounds, SameRows
<1> QED
  BY <1>1, <1>2, <1>3, <1>6, <1>7, OtherKeeps DEF LibraryInv, LibraryRecords

(* A delivery that ends, or has written.                                   *)
LEMMA DeliveryEffect ==
    ASSUME LibraryInv, NEW d \in Deliverers, dl[d].pc # "idle", Deferred(d) \/ Acknowledge(d)
    PROVE  /\ dl' \in [Deliverers -> DeliveryRecords]
           /\ \A c \in Deliverers : /\ dl'[c].pc # "idle" => dl[c].pc # "idle"
                                    /\ dl'[c].pc = "write" => c # d /\ dl[c].pc = "write"
                                    /\ dl'[c].pc # "idle" => dl'[c].at = dl[c].at
                                    /\ dl'[c].pc # "idle" => dl'[c].expected = dl[c].expected
<1>1. CASE Deferred(d)
  <2>1. IdleDelivery \in DeliveryRecords /\ IdleDelivery.pc = "idle"
    BY DEF IdleDelivery, DeliveryRecords, Contents
  <2> QED
    BY <1>1, <2>1 DEF Deferred, LibraryInv, LibraryRecords
<1>2. CASE Acknowledge(d)
  BY <1>2 DEF Acknowledge, LibraryInv, LibraryRecords, DeliveryRecords
<1> QED BY <1>1, <1>2

LEMMA AckKeeps ==
    ASSUME LibraryInv, NEW d \in Deliverers, acknowledge_projected_completion(d)
    PROVE  LibraryInv'
<1>1. OtherStep /\ SameRows /\ media' = media /\ pend' \subseteq pend /\ src' = src /\ lease' = lease
      /\ used' = used /\ Deferred(d) /\ dl[d].pc # "idle"
  BY DEF acknowledge_projected_completion, OtherStep, SameRows, appStore, copy, files
<1>2. LibraryTypeOK' /\ diskRev <= diskRev'
  BY <1>1 DEF LibraryInv, LibraryTypeOK, OtherStep, SameRows
<1>3. CopyIsCurrent'
  BY <1>1, SameRowsCurrent DEF LibraryInv, OtherStep
<1>4. dl' \in [Deliverers -> DeliveryRecords] /\ \A c \in Deliverers : DeliveryInBounds(c)'
  BY <1>1, DeliveryEffect DEF LibraryInv, DeliveryInBounds, SameRows
<1> QED
  BY <1>1, <1>2, <1>3, <1>4, OtherKeeps DEF LibraryInv, LibraryRecords

(* The four ways a delivery under the lock ends.                           *)
LEMMA UpsertEffect ==
    ASSUME LibraryInv, NEW d \in Deliverers, upsert_library_entry_if_revision(d)
    PROVE  LET e == dl[d].at IN
           /\ OtherStep /\ media' = media /\ pend' = pend /\ src' = src /\ lease' = lease /\ used' = used
           /\ dl[d].pc = "write" /\ e \in Entries /\ (Deferred(d) \/ Acknowledge(d))
           /\ \/ /\ row[e] = "new" /\ mem' = [mem EXCEPT ![e] = "new"] /\ memRev' = diskRev
                 /\ adopted' = (adopted \/ memRev # diskRev) /\ row' = row /\ diskRev' = diskRev
              \/ SameRows
              \/ /\ memRev = dl[d].expected /\ diskRev = dl[d].expected
                 /\ row' = [row EXCEPT ![e] = "new"] /\ diskRev' = diskRev + 1
                 /\ mem' = [mem EXCEPT ![e] = "new"] /\ memRev' = diskRev + 1 /\ adopted' = adopted
<1>1. dl[d].pc = "write" /\ dl[d].at \in Entries
  BY DEF LibraryInv, DeliveryInBounds, upsert_library_entry_if_revision
<1>2. Deferred(d) \/ Acknowledge(d)
  BY DEF upsert_library_entry_if_revision
<1> QED
  BY <1>1, <1>2 DEF upsert_library_entry_if_revision, OtherStep, SameRows, files, RevisionIs

LEMMA UpsertKeeps ==
    ASSUME LibraryInv, NEW d \in Deliverers, upsert_library_entry_if_revision(d)
    PROVE  LibraryInv'
<1> DEFINE e == dl[d].at
<1>1. /\ OtherStep /\ media' = media /\ pend' = pend /\ src' = src /\ lease' = lease /\ used' = used
      /\ dl[d].pc = "write" /\ e \in Entries /\ (Deferred(d) \/ Acknowledge(d))
  BY UpsertEffect
<1>2. LibraryTypeOK /\ diskRev \in Nat /\ memRev \in 1..diskRev
  BY DEF LibraryInv, LibraryTypeOK
<1> HIDE DEF e
<1>3. ASSUME LibraryTypeOK', CopyIsCurrent', diskRev <= diskRev' PROVE LibraryInv'
  <2>1. dl' \in [Deliverers -> DeliveryRecords]
    BY <1>1, DeliveryEffect
  <2>2. ASSUME NEW c \in Deliverers PROVE DeliveryInBounds(c)'
    <3> SUFFICES ASSUME dl'[c].pc # "idle" PROVE dl'[c].at \in Entries /\ dl'[c].expected <= diskRev'
      BY DEF DeliveryInBounds
    <3>1. dl'[c].at = dl[c].at /\ dl'[c].expected = dl[c].expected /\ dl[c].pc # "idle"
      BY <1>1, DeliveryEffect
    <3>2. dl[c].at \in Entries /\ dl[c].expected <= diskRev /\ dl[c].expected \in Nat
      BY <3>1 DEF LibraryInv, DeliveryInBounds, LibraryRecords, DeliveryRecords
    <3>3. diskRev' \in Nat
      BY <1>3 DEF LibraryTypeOK
    <3> QED BY <1>2, <1>3, <3>1, <3>2, <3>3
  <2> QED
    BY <1>1, <1>3, <2>1, <2>2, OtherKeeps DEF LibraryInv, LibraryRecords
<1>4. CASE SameRows
  <2>1. LibraryTypeOK' /\ diskRev <= diskRev'
    BY <1>1, <1>2, <1>4 DEF LibraryTypeOK, OtherStep, SameRows
  <2>2. CopyIsCurrent'
    BY <1>1, <1>4, SameRowsCurrent DEF LibraryInv, OtherStep
  <2> QED BY <1>3, <2>1, <2>2
<1>5. CASE /\ row[e] = "new" /\ mem' = [mem EXCEPT ![e] = "new"] /\ memRev' = diskRev
           /\ adopted' = (adopted \/ memRev # diskRev) /\ row' = row /\ diskRev' = diskRev
  <2>1. LibraryTypeOK' /\ diskRev <= diskRev'
    <3>1. mem' \in [Entries -> Contents]
      BY <1>2, <1>5 DEF LibraryTypeOK, Contents
    <3>2. memRev' \in 1..diskRev' /\ diskRev <= diskRev'
      BY <1>2, <1>5
    <3>3. adopted' \in BOOLEAN
      BY <1>5, Zenon
    <3> QED BY <1>1, <1>2, <1>5, <3>1, <3>2, <3>3 DEF LibraryTypeOK, OtherStep
  <2>2. CopyIsCurrent'
    <3>1. CASE adopted'
      BY <3>1 DEF CopyIsCurrent
    <3>2. CASE ~adopted'
      <4>1. ~adopted /\ memRev = diskRev
        BY <1>5, <3>2
      <4>2. mem = row /\ mem' = mem
        BY <1>1, <1>2, <1>5, <4>1 DEF LibraryInv, CopyIsCurrent, LibraryTypeOK
      <4>3. adopted' = adopted
        <5>1. adopted = FALSE
          BY <1>2, <4>1 DEF LibraryTypeOK
        <5>2. adopted' = FALSE
          BY <2>1, <3>2 DEF LibraryTypeOK
        <5> QED BY <5>1, <5>2
      <4>4. SameRows
        BY <1>5, <4>1, <4>2, <4>3 DEF SameRows
      <4> QED BY <1>1, <4>4, SameRowsCurrent DEF LibraryInv, OtherStep
    <3> QED BY <3>1, <3>2
  <2> QED BY <1>3, <2>1, <2>2
<1>6. CASE /\ memRev = dl[d].expected /\ diskRev = dl[d].expected
           /\ row' = [row EXCEPT ![e] = "new"] /\ diskRev' = diskRev + 1
           /\ mem' = [mem EXCEPT ![e] = "new"] /\ memRev' = diskRev + 1 /\ adopted' = adopted
  <2>1. LibraryTypeOK' /\ diskRev <= diskRev'
    <3>1. row' \in [Entries -> Contents] /\ mem' \in [Entries -> Contents]
      BY <1>2, <1>6 DEF LibraryTypeOK, Contents
    <3>2. diskRev' \in Nat /\ memRev' \in 1..diskRev' /\ diskRev <= diskRev'
      BY <1>2, <1>6
    <3> QED BY <1>1, <1>2, <1>6, <3>1, <3>2 DEF LibraryTypeOK, OtherStep
  <2>2. CopyIsCurrent'
    <3> SUFFICES ASSUME ~adopted
                 PROVE  mem' = row' /\ \A o \in Ops : ReadsTrue(o)' /\ SettlesTrue(o)'
      BY <1>6 DEF CopyIsCurrent
    <3>1. memRev = diskRev /\ mem = row
      BY <1>6 DEF LibraryInv, CopyIsCurrent
    <3>2. \A o \in Ops : op'[o].pc \notin AfterCommit
      BY <1>1, <3>1, NobodyCommitted DEF OtherStep
    <3>3. ASSUME NEW o \in Ops PROVE ReadsTrue(o)'
      <4>1. op[o].pc \in BeforeCommit => op[o].expected <= memRev
        BY DEF LibraryInv, CopyIsCurrent, ReadsTrue
      <4>2. op[o].expected \in Nat
        BY DEF LibraryInv, LibraryRecords, DeleteRecords
      <4> QED BY <1>1, <1>2, <1>6, <4>1, <4>2 DEF ReadsTrue, OtherStep
    <3> QED BY <1>6, <3>1, <3>2, <3>3 DEF SettlesTrue
  <2> QED BY <1>3, <2>1, <2>2
<1> QED
  BY <1>4, <1>5, <1>6, UpsertEffect DEF e

LEMMA PersistKeeps ==
    ASSUME LibraryInv, persist_result
    PROVE  LibraryInv'
<1>1. SameMishaps
  BY EventEffect DEF LibraryInv, persist_result, Kinds
<1>2. /\ OtherStep /\ media' = media /\ pend' = pend /\ src' = src /\ lease' = lease /\ dl' = dl
      /\ diskRev = memRev /\ row' = mem /\ mem' = mem /\ diskRev' = diskRev + 1
      /\ memRev' = diskRev + 1 /\ adopted' = adopted
  BY DEF persist_result, OtherStep, RevisionIs, files
<1>3. diskRev \in Nat /\ memRev \in 1..diskRev
  BY DEF LibraryInv, LibraryTypeOK
<1>4. LibraryTypeOK' /\ diskRev <= diskRev'
  <2>1. diskRev' \in Nat /\ memRev' \in 1..diskRev' /\ diskRev <= diskRev'
    BY <1>2, <1>3
  <2> QED BY <1>2, <2>1 DEF LibraryInv, LibraryTypeOK, OtherStep
<1>5. ASSUME NEW c \in Deliverers PROVE DeliveryInBounds(c)'
  <2>1. dl[c].expected \in Nat
    BY DEF LibraryInv, LibraryRecords, DeliveryRecords
  <2> QED BY <1>2, <1>3, <2>1 DEF LibraryInv, DeliveryInBounds
<1>6. CopyIsCurrent'
  <2> SUFFICES ASSUME ~adopted PROVE \A o \in Ops : ReadsTrue(o)' /\ SettlesTrue(o)'
    BY <1>2 DEF CopyIsCurrent
  <2>1. \A o \in Ops : op'[o].pc \notin AfterCommit
    BY <1>2, NobodyCommitted DEF OtherStep
  <2>2. ASSUME NEW o \in Ops PROVE ReadsTrue(o)'
    <3>1. op[o].pc \in BeforeCommit => op[o].expected <= memRev
      BY DEF LibraryInv, CopyIsCurrent, ReadsTrue
    <3>2. op[o].expected \in Nat
      BY DEF LibraryInv, LibraryRecords, DeleteRecords
    <3> QED BY <1>2, <1>3, <3>1, <3>2 DEF ReadsTrue, OtherStep
  <2> QED BY <2>1, <2>2 DEF SettlesTrue
<1> QED
  BY <1>1, <1>2, <1>4, <1>5, <1>6, OtherKeeps DEF LibraryInv, LibraryRecords, SameMishaps

LEMMA ProjectionKeeps ==
    ASSUME LibraryInv, load_projection \/ replace_media_library_entry_if_revision
    PROVE  LibraryInv'
<1>1. SameMishaps
  BY EventEffect DEF LibraryInv, LibraryRecords, load_projection, replace_media_library_entry_if_revision,
     Kinds, SameMishaps
<1>2. /\ OtherStep /\ pend' = pend /\ src' = src /\ lease' = lease /\ dl' = dl
      /\ row' = row /\ mem' = mem /\ memRev' = memRev /\ adopted' = adopted
      /\ diskRev' \in {diskRev, diskRev + 1} /\ media' \in {0, diskRev}
  BY DEF load_projection, replace_media_library_entry_if_revision, OtherStep, files, copy, appStore
<1>3. diskRev \in Nat /\ memRev \in 1..diskRev
  BY DEF LibraryInv, LibraryTypeOK
<1>4. LibraryTypeOK' /\ diskRev <= diskRev'
  <2>1. diskRev' \in Nat /\ memRev' \in 1..diskRev' /\ diskRev <= diskRev'
    BY <1>2, <1>3
  <2> QED BY <1>2, <2>1 DEF LibraryInv, LibraryTypeOK, OtherStep
<1>5. ASSUME NEW c \in Deliverers PROVE DeliveryInBounds(c)'
  <2>1. dl[c].expected \in Nat
    BY DEF LibraryInv, LibraryRecords, DeliveryRecords
  <2> QED BY <1>2, <1>3, <2>1 DEF LibraryInv, DeliveryInBounds
<1>6. CopyIsCurrent'
  <2>1. CASE diskRev' = diskRev
    BY <1>2, <2>1, SameRowsCurrent DEF LibraryInv, SameRows, OtherStep
  <2>2. CASE diskRev' = diskRev + 1
    <3> SUFFICES ASSUME ~adopted
                 PROVE  /\ memRev' # diskRev'
                        /\ \A o \in Ops : ReadsTrue(o)' /\ SettlesTrue(o)'
      BY <1>2 DEF CopyIsCurrent
    <3>1. \A o \in Ops : ReadsTrue(o)'
      BY <1>2 DEF LibraryInv, CopyIsCurrent, ReadsTrue, OtherStep
    <3>2. ASSUME NEW o \in Ops PROVE SettlesTrue(o)'
      <4> SUFFICES ASSUME op[o].pc \in AfterCommit
                   PROVE  /\ memRev < op[o].committed /\ op[o].committed # diskRev'
                          /\ \A p \in Ops : op[p].pc \in AfterCommit => p = o
        BY <1>2 DEF SettlesTrue, OtherStep
      <4>1. op[o].committed \in 1..diskRev
        BY DEF LibraryInv, DeleteInBounds
      <4> QED BY <1>3, <2>2, <4>1 DEF LibraryInv, CopyIsCurrent, SettlesTrue
    <3> QED BY <1>2, <1>3, <2>2, <3>1, <3>2
  <2> QED BY <1>2, <2>1, <2>2
<1> QED
  BY <1>1, <1>2, <1>3, <1>4, <1>5, <1>6, OtherKeeps DEF LibraryInv, LibraryRecords, SameMishaps

(* A crash leaves no delete and no delivery under way.                     *)
LEMMA CrashOps ==
    ASSUME LibraryInv, crash
    PROVE  /\ op' \in [Ops -> DeleteRecords]
           /\ \A o \in Ops : /\ op'[o].pc = IF op[o].pc = "idle" THEN "idle" ELSE "done"
                             /\ op'[o].batch = {} /\ op'[o].todo = {} /\ op'[o].kept = TRUE
<1>1. op' = [o \in Ops |-> IF op[o].pc = "idle" THEN IdleOp ELSE [IdleOp EXCEPT !.pc = "done"]]
  BY DEF crash
<1>2. LET n == [IdleOp EXCEPT !.pc = "done"] IN
      n \in DeleteRecords /\ n.pc = "done" /\ n.batch = {} /\ n.todo = {} /\ n.kept = TRUE
  BY IdleFacts DEF DeleteRecords, DeletePlaces
<1> QED
  BY <1>1, <1>2, IdleFacts

LEMMA CrashKeeps ==
    ASSUME LibraryInv, crash
    PROVE  LibraryInv'
<1>1. used' \in [Kinds -> Nat]
  BY CrashEffect DEF LibraryInv, crash
<1>2. /\ up' = FALSE /\ media' = 0 /\ claimed' = {} /\ row' = row /\ diskRev' = diskRev
      /\ intent' = intent /\ lease' = lease /\ mem' = mem /\ memRev' = memRev /\ SameFiles
      /\ pend' = pend /\ adopted' = adopted /\ dl' = [d \in Deliverers |-> IdleDelivery]
  BY DEF crash, appStore, files, SameFiles
<1>3. IdleDelivery \in DeliveryRecords /\ IdleDelivery.pc = "idle"
  BY DEF IdleDelivery, DeliveryRecords, Contents
<1>4. LibraryTypeOK'
  BY <1>2 DEF LibraryInv, LibraryTypeOK, SameFiles
<1>5. LibraryRecords'
  BY <1>1, <1>2, <1>3, CrashOps DEF LibraryRecords
<1>6. AtRest'
  BY <1>2, <1>3, CrashOps DEF AtRest
<1>7. \A d \in Deliverers : DeliveryInBounds(d)'
  BY <1>2, <1>3 DEF DeliveryInBounds
<1>8. ASSUME NEW o \in Ops PROVE DeleteInBounds(o)' /\ IntentsFollow(o)' /\ TrashFollows(o)'
  <2>1. /\ op'[o].pc = IF op[o].pc = "idle" THEN "idle" ELSE "done"
        /\ op'[o].batch = {} /\ op'[o].todo = {}
    BY CrashOps
  <2>2. DeleteInBounds(o)'
    BY <2>1 DEF DeleteInBounds, BeforeCommit, AfterCommit
  <2>3. IntentsFollow(o)'
    BY <1>2, <2>1, DeleteFacts DEF IntentsFollow, Unrecorded
  <2>4. TrashFollows(o)'
    BY <1>2, <2>1, DeleteFacts DEF TrashFollows, SameFiles, Untouched
  <2> QED BY <2>2, <2>3, <2>4
<1>9. CopyIsCurrent'
  <2>1. \A o \in Ops : ReadsTrue(o)' /\ SettlesTrue(o)'
    BY CrashOps DEF ReadsTrue, SettlesTrue, BeforeCommit, AfterCommit
  <2> QED BY <1>2, <2>1 DEF LibraryInv, CopyIsCurrent
<1> QED
  BY <1>4, <1>5, <1>6, <1>7, <1>8, <1>9 DEF LibraryInv

(* What startup restores: what is staged, and what only a marker names.    *)
Returned == {x \in Ops \X Entries : Staged(x)} \cup Orphans

LEMMA StartupEffect ==
    ASSUME recover_pending_deletes
    PROVE  /\ ~up /\ up' = TRUE /\ row' = row /\ diskRev' = diskRev /\ mem' = row /\ memRev' = diskRev
           /\ claimed' = claimed /\ op' = op /\ pend' = pend /\ dl' = dl /\ media' = media
           /\ used' = used /\ adopted' = adopted
           /\ Restorable(Returned) /\ marker' = {}
           /\ src' = src \cup {x[2] : x \in Returned \cap trash}
           /\ trash' = {x \in trash : ~Intended(x[1], x[2]) /\ x \notin Returned}
           /\ intent' = [o \in Ops |-> [e \in Entries |-> "none"]]
           /\ lease' = [e \in Entries |-> NoOne]
  BY DEF recover_pending_deletes, Returned, RestoredSrc

LEMMA StartupKeeps ==
    ASSUME LibraryInv, recover_pending_deletes
    PROVE  LibraryInv'
<1>1. /\ ~up /\ up' = TRUE /\ row' = row /\ diskRev' = diskRev /\ mem' = row /\ memRev' = diskRev
      /\ claimed' = claimed /\ op' = op /\ pend' = pend /\ dl' = dl /\ media' = media
      /\ used' = used /\ adopted' = adopted
  BY StartupEffect
<1>2. trash' \subseteq trash /\ marker' = {} /\ \A o \in Ops, e \in Entries : intent'[o][e] = "none"
  BY StartupEffect
<1>3. LibraryTypeOK'
  <2>1. src' \subseteq Entries
    BY StartupEffect DEF LibraryInv, LibraryTypeOK
  <2>2. /\ lease' \in [Entries -> Ops \cup {NoOne, Uploader}]
        /\ intent' \in [Ops -> [Entries -> {"none", "staged", "committed"}]]
    BY StartupEffect
  <2>3. memRev' \in 1..diskRev'
    BY <1>1 DEF LibraryInv, LibraryTypeOK
  <2> QED BY <1>1, <1>2, <2>1, <2>2, <2>3 DEF LibraryInv, LibraryTypeOK
<1>4. LibraryRecords'
  BY <1>1 DEF LibraryInv, LibraryRecords
<1>5. \A o \in Ops : op[o].pc \in {"idle", "done"}
  BY <1>1 DEF LibraryInv, AtRest
<1>6. \A d \in Deliverers : DeliveryInBounds(d)'
  BY <1>1 DEF LibraryInv, DeliveryInBounds
<1>7. ASSUME NEW o \in Ops PROVE DeleteInBounds(o)' /\ IntentsFollow(o)' /\ TrashFollows(o)'
  <2>1. DeleteInBounds(o)'
    BY <1>1, DeleteFacts DEF DeleteInBounds
  <2>2. IntentsFollow(o)'
    BY <1>1, <1>2, <1>5 DEF IntentsFollow
  <2>3. TrashFollows(o)'
    BY <1>1, <1>2, <1>5, DeleteFacts DEF TrashFollows
  <2> QED BY <2>1, <2>2, <2>3
<1>8. CopyIsCurrent'
  <2>1. \A o \in Ops : ReadsTrue(o)' /\ SettlesTrue(o)'
    BY <1>1, <1>5 DEF ReadsTrue, SettlesTrue, BeforeCommit, AfterCommit
  <2> QED BY <1>1, <2>1 DEF CopyIsCurrent
<1> QED
  BY <1>1, <1>3, <1>4, <1>6, <1>7, <1>8 DEF LibraryInv, AtRest

LEMMA LibraryStarts == LibraryInit => LibraryInv
<1> SUFFICES ASSUME LibraryInit PROVE LibraryInv
  OBVIOUS
<1> USE DEF LibraryInit
<1>1. LibraryTypeOK
  <2>1. diskRev \in Nat /\ memRev \in 1..diskRev
    OBVIOUS
  <2>2. /\ row \in [Entries -> Contents] /\ mem \in [Entries -> Contents]
        /\ intent \in [Ops -> [Entries -> {"none", "staged", "committed"}]]
        /\ lease \in [Entries -> Ops \cup {NoOne, Uploader}]
    BY DEF Contents
  <2> QED
    BY <2>1, <2>2 DEF LibraryTypeOK
<1>2. LibraryRecords
  BY IdleFacts DEF LibraryRecords, DeliveryRecords, IdleDelivery, Contents
<1>3. AtRest
  BY DEF AtRest
<1>4. \A d \in Deliverers : DeliveryInBounds(d)
  BY DEF DeliveryInBounds, IdleDelivery
<1>5. \A o \in Ops : DeleteInBounds(o) /\ IntentsFollow(o) /\ TrashFollows(o)
  BY IdleFacts DEF DeleteInBounds, IntentsFollow, TrashFollows, BeforeCommit, AfterCommit
<1>6. CopyIsCurrent
  BY IdleFacts DEF CopyIsCurrent, ReadsTrue, SettlesTrue, BeforeCommit, AfterCommit
<1> QED
  BY <1>1, <1>2, <1>3, <1>4, <1>5, <1>6 DEF LibraryInv

LEMMA LibraryStep == LibraryInv /\ [LibraryNext]_libVars => LibraryInv'
<1> SUFFICES ASSUME LibraryInv, [LibraryNext]_libVars PROVE LibraryInv'
  OBVIOUS
<1>1. ASSUME NEW o \in Ops, delete_entries(o) PROVE LibraryInv'
  BY <1>1, BusyKeeps, LeaseKeeps, RecoverKeeps, RecordKeeps, CommitKeeps, AbortKeeps, FinalizeKeeps,
     ReleaseKeeps, MarkKeeps, MoveKeeps, RollbackKeeps, CleanupKeeps DEF delete_entries
<1>2. ASSUME NEW d \in Deliverers, deliver_terminal_outcomes(d) PROVE LibraryInv'
  BY <1>2, ApplyKeeps, UpsertKeeps, AckKeeps DEF deliver_terminal_outcomes
<1>3. CASE UNCHANGED libVars
  BY <1>3 DEF libVars, appStore, copy, files, LibraryInv, LibraryTypeOK, LibraryRecords, AtRest,
     DeliveryInBounds, DeleteInBounds, IntentsFollow, TrashFollows, CopyIsCurrent, ReadsTrue, SettlesTrue,
     Without
<1> QED
  BY <1>1, <1>2, <1>3, CommandKeeps, DownloadKeeps, UploadKeeps, PersistKeeps, ProjectionKeeps,
     CrashKeeps, StartupKeeps DEF LibraryNext

(* Every step of a delete, a delivery, a save, an import, an upload's      *)
(* lease, a crash and a start keeps LibraryInv.                            *)
THEOREM LibraryInvariant == LibrarySpec => []LibraryInv
<1>1. LibraryInit => LibraryInv
  BY LibraryStarts
<1>2. LibraryInv /\ [LibraryNext]_libVars => LibraryInv'
  BY LibraryStep
<1> QED
  BY <1>1, <1>2, PTL DEF LibrarySpec

(* The rows, the intents, the leases and the files have their types.       *)
THEOREM LibraryTypes == LibrarySpec => []LibraryTypeOK
<1>1. LibraryInv => LibraryTypeOK
  BY DEF LibraryInv
<1> QED
  BY <1>1, LibraryInvariant, PTL

-----------------------------------------------------------------------------
(* Files outlive their row, and a deleted row stays deleted.               *)

(* What is taken out of the trash in a step without being put back.        *)
Destroys(o, e) == <<o, e>> \in trash /\ <<o, e>> \notin trash' /\ e \notin src'

LEMMA DestroysStep ==
    ASSUME LibraryInv, LibraryNext, NEW o \in Ops, NEW e \in Entries, Destroys(o, e)
    PROVE  intent[o][e] = "committed"
<1>0. LibraryTypeOK /\ LibraryRecords /\ <<o, e>> \in trash /\ <<o, e>> \notin trash' /\ e \notin src'
  BY DEF LibraryInv, Destroys
<1>1. ASSUME NEW p \in Ops, delete_entries(p) PROVE intent[o][e] = "committed"
  <2>1. CASE \/ entry_busy_reason(p) \/ acquire_operation_leases(p) \/ record_library_delete_intents(p)
             \/ commit_library_delete_if_revision(p) \/ abort_library_delete(p)
             \/ finalize_library_delete(p) \/ release_library_delete_keys(p)
    <3>1. SameFiles
      BY <1>0, <2>1, BusyEffect, LeaseEffect, RecordEffect, CommitEffect, AbortEffect, FinalizeEffect,
         ReleaseEffect
    <3> QED BY <1>0, <3>1 DEF SameFiles
  <2>2. CASE recover_orphan_markers(p)
    <3>1. PICK done \in SUBSET Orphans : /\ trash' = trash \ done
                                         /\ src' = src \cup {x[2] : x \in done \cap trash}
      BY <1>0, <2>2, RecoverEffect
    <3>2. <<o, e>> \in done \cap trash
      BY <1>0, <3>1
    <3>3. <<o, e>>[2] \in src'
      BY <3>1, <3>2
    <3> QED BY <1>0, <3>3
  <2>3. ASSUME NEW f \in Entries, write_marker(p, f) \/ move_to_trash(p, f) PROVE FALSE
    <3>1. trash \subseteq trash'
      BY <1>0, <2>3, MarkEffect, MoveEffect
    <3> QED BY <1>0, <3>1
  <2>4. ASSUME NEW f \in Entries, rollback_staged(p, f) PROVE FALSE
    <3>1. \/ trash' = trash \ {<<p, f>>} /\ src' = IF <<p, f>> \in trash THEN src \cup {f} ELSE src
          \/ trash' = trash
      BY <1>0, <2>4, RollbackEffect
    <3> QED BY <1>0, <3>1
  <2>5. ASSUME NEW f \in Entries, cleanup_committed_delete(p, f) PROVE intent[o][e] = "committed"
    <3>1. /\ op[p].pc = "cleanup" /\ f \in op[p].todo /\ trash' \in {trash, trash \ {<<p, f>>}}
      BY <1>0, <2>5, CleanupEffect
    <3>2. o = p /\ e = f
      BY <1>0, <3>1
    <3> QED BY <3>1, <3>2, DeleteFacts DEF IntentsFollow
  <2> QED
    BY <1>1, <2>1, <2>2, <2>3, <2>4, <2>5 DEF delete_entries
<1>2. CASE recover_pending_deletes
  <2>1. /\ src' = src \cup {x[2] : x \in Returned \cap trash}
        /\ trash' = {x \in trash : ~Intended(x[1], x[2]) /\ x \notin Returned}
    BY <1>2, StartupEffect
  <2>2. <<o, e>> \notin Returned
    <3>1. <<o, e>> \in Returned => <<o, e>>[2] \in src'
      BY <1>0, <2>1
    <3> QED BY <1>0, <3>1
  <2>3. Intended(o, e)
    BY <1>0, <2>1, <2>2
  <2>4. intent[o][e] # "staged"
    BY <2>2 DEF Returned, Staged
  <2> QED
    BY <1>0, <2>3, <2>4 DEF Intended, LibraryTypeOK
<1>3. ASSUME NEW d \in Deliverers, deliver_terminal_outcomes(d) PROVE FALSE
  <2>1. trash' = trash
    BY <1>3 DEF deliver_terminal_outcomes, apply_download_completion, upsert_library_entry_if_revision,
       acknowledge_projected_completion, files
  <2> QED BY <1>0, <2>1
<1>4. ASSUME NEW f \in Entries, download_session(f) \/ acquire_upload_lease(f) \/ release_upload_lease(f)
      PROVE  FALSE
  <2>1. trash' = trash
    BY <1>4 DEF download_session, acquire_upload_lease, release_upload_lease, files
  <2> QED BY <1>0, <2>1
<1>5. ASSUME NEW p \in Ops, NEW batch \in (SUBSET Entries) \ {{}}, remove_library_entries(p, batch)
      PROVE  FALSE
  BY <1>0, <1>5 DEF remove_library_entries, files
<1>6. CASE persist_result \/ load_projection \/ replace_media_library_entry_if_revision \/ crash
  BY <1>0, <1>6 DEF persist_result, load_projection, replace_media_library_entry_if_revision, crash, files
<1> QED
  BY <1>1, <1>2, <1>3, <1>4, <1>5, <1>6 DEF LibraryNext

(* FilesOutliveRow: a payload is destroyed only by the cleanup of a delete *)
(* that committed, or by the startup that finishes it, for any number of   *)
(* deletes, failures and crashes.                                          *)
THEOREM FilesOutlive == LibrarySpec => FilesOutliveRow
<1> DEFINE Safe == \A o \in Ops, e \in Entries :
               <<o, e>> \in trash /\ <<o, e>> \notin trash' /\ e \notin src' =>
                   intent[o][e] = "committed"
<1>1. LibraryInv /\ [LibraryNext]_libVars => [Safe]_libVars
  BY DestroysStep DEF Destroys
<1> QED
  BY <1>1, LibraryInvariant, PTL DEF LibrarySpec, FilesOutliveRow

LEMMA ReturnsStep ==
    ASSUME LibraryInv, LibraryNext, NEW e \in Entries, Returns(e), ~adopted
    PROVE  Delivering(e)
<1>0. LibraryTypeOK /\ LibraryRecords /\ row[e] = "absent" /\ row'[e] # "absent"
  BY DEF LibraryInv, Returns
<1>1. ASSUME NEW p \in Ops, delete_entries(p) PROVE FALSE
  <2>1. CASE commit_library_delete_if_revision(p)
    <3>1. row' = Without(row, op[p].batch) \/ row' = row
      BY <1>0, <2>1, CommitEffect
    <3>2. Without(row, op[p].batch)[e] = "absent"
      BY <1>0 DEF Without
    <3> QED BY <1>0, <3>1, <3>2
  <2>2. CASE release_library_delete_keys(p)
    BY <1>0, <2>2, ReleaseEffect
  <2>3. CASE \/ entry_busy_reason(p) \/ acquire_operation_leases(p) \/ recover_orphan_markers(p)
             \/ record_library_delete_intents(p) \/ abort_library_delete(p)
             \/ finalize_library_delete(p)
             \/ \E f \in Entries : \/ write_marker(p, f) \/ move_to_trash(p, f)
                                   \/ rollback_staged(p, f) \/ cleanup_committed_delete(p, f)
    <3>1. DeleteStep(p)
      BY <1>0, <2>3, BusyEffect, LeaseEffect, RecoverEffect, RecordEffect, AbortEffect, FinalizeEffect,
         MarkEffect, MoveEffect, RollbackEffect, CleanupEffect
    <3> QED BY <1>0, <3>1 DEF DeleteStep
  <2> QED
    BY <1>1, <2>1, <2>2, <2>3 DEF delete_entries
<1>2. ASSUME NEW d \in Deliverers, deliver_terminal_outcomes(d) PROVE Delivering(e)
  <2>1. CASE upsert_library_entry_if_revision(d)
    <3>1. dl[d].pc = "write" /\ (row' = row \/ row' = [row EXCEPT ![dl[d].at] = "new"])
      BY <2>1, UpsertEffect DEF SameRows
    <3> QED BY <1>0, <3>1 DEF Delivering, LibraryTypeOK
  <2>2. CASE acknowledge_projected_completion(d) \/ \E f \in Entries : apply_download_completion(d, f)
    BY <1>0, <2>2 DEF acknowledge_projected_completion, apply_download_completion, appStore
  <2> QED BY <1>2, <2>1, <2>2 DEF deliver_terminal_outcomes
<1>3. CASE persist_result
  <2>1. row' = mem /\ memRev = diskRev
    BY <1>3 DEF persist_result, RevisionIs
  <2> QED BY <1>0, <2>1 DEF LibraryInv, CopyIsCurrent
<1>4. ASSUME NEW f \in Entries, download_session(f) \/ acquire_upload_lease(f) \/ release_upload_lease(f)
      PROVE  FALSE
  BY <1>0, <1>4 DEF download_session, acquire_upload_lease, release_upload_lease, appStore
<1>5. ASSUME NEW p \in Ops, NEW batch \in (SUBSET Entries) \ {{}}, remove_library_entries(p, batch)
      PROVE  FALSE
  BY <1>0, <1>5 DEF remove_library_entries, appStore
<1>6. CASE \/ load_projection \/ replace_media_library_entry_if_revision \/ crash
           \/ recover_pending_deletes
  BY <1>0, <1>6 DEF load_projection, replace_media_library_entry_if_revision, crash,
     recover_pending_deletes, appStore
<1> QED
  BY <1>1, <1>2, <1>3, <1>4, <1>5, <1>6 DEF LibraryNext

(* DeletedStaysDeleted: a whole-library save, whatever it interleaves with,*)
(* never brings a deleted row back while memory did not adopt a revision.  *)
THEOREM DeletedRowsStay == LibrarySpec => DeletedStaysDeleted
<1> DEFINE Safe == \A e \in Entries : Returns(e) => Delivering(e) \/ adopted
<1>1. LibraryInv /\ [LibraryNext]_libVars => [Safe]_libVars
  BY ReturnsStep
<1> QED
  BY <1>1, LibraryInvariant, PTL DEF LibrarySpec, DeletedStaysDeleted

-----------------------------------------------------------------------------
(* A row keeps its files, when no step fails or when one does and nothing  *)
(* else goes wrong.                                                        *)

FewMishaps == Budget["faults"] = 0 \/ MaxMishaps <= 1

NoFault == used["faults"] = 0
Unfailed(o) == op[o].kept = TRUE /\ op[o].pc # "recover"
StagingMarked(o) == \A e \in Entries :
    /\ op[o].pc \in {"stage", "rename", "record"} /\ <<o, e>> \in trash => <<o, e>> \in marker
    /\ op[o].pc = "rename" /\ op[o].at = {e} => <<o, e>> \in marker
RecoveryMarked(o) == \A e \in Entries :
    op[o].pc = "recover" /\ <<o, e>> \in trash => <<o, e>> \in marker

(* A payload that will go back: its intent says so, its marker does and no *)
(* intent contradicts it, or its delete has yet to go on or to undo it.    *)
Held(o, e) == \/ op[o].pc \in {"stage", "rename", "record"}
              \/ op[o].pc = "rollback" /\ e \in op[o].todo
Protected(o, e) ==
    /\ <<o, e>> \in trash
    /\ \/ intent[o][e] = "staged"
       \/ <<o, e>> \in marker /\ intent[o][e] = "none"
       \/ Held(o, e)
Kept(e) == e \in src \/ \E o \in Ops : Protected(o, e)

(* An entry whose row is there, or whose row a delivery is about to write. *)
Needed(e) == \/ row[e] # "absent"
             \/ \E d \in Deliverers : dl[d].pc = "write" /\ dl[d].at = e /\ dl[d].expected = diskRev

FilesInv ==
    /\ used["faults"] <= Budget["faults"]
    /\ NoFault => \A o \in Ops : Unfailed(o) /\ StagingMarked(o)
    /\ \A o \in Ops : RecoveryMarked(o)
    /\ ~adopted => \A e \in Entries : Needed(e) => Kept(e)

LEMMA FaultIsFirst ==
    ASSUME LibraryRecords, FewMishaps, Faulted
    PROVE  NoFault /\ ~NoFault' /\ used'["faults"] <= Budget["faults"]
  BY LibraryConstants DEF LibraryRecords, FewMishaps, Faulted, NoFault, Kinds

LEMMA CrashIsFirst ==
    ASSUME LibraryRecords, FewMishaps, FilesInv, Spend("crashes")
    PROVE  NoFault /\ NoFault' /\ used'["faults"] <= Budget["faults"]
<1>1. /\ used["faults"] + used["crashes"] < MaxMishaps
      /\ used'["faults"] = used["faults"] /\ used' \in [Kinds -> Nat]
  BY CrashEffect
<1>2. used["faults"] \in Nat /\ used["crashes"] \in Nat /\ Budget["faults"] \in Nat /\ MaxMishaps \in Nat
  BY LibraryConstants DEF LibraryRecords, Kinds
<1> QED
  BY <1>1, <1>2 DEF FewMishaps, FilesInv, NoFault

(* What a step of one delete has to show.                                  *)
OthersKeepFiles(o) == \A p \in Ops \ {o}, e \in Entries :
    /\ <<p, e>> \in trash' => <<p, e>> \in trash
    /\ <<p, e>> \in trash' /\ <<p, e>> \in marker => <<p, e>> \in marker'
    /\ <<p, e>> \in trash /\ <<p, e>> \notin trash' => e \in src'
    /\ NoFault' /\ <<p, e>> \in marker => <<p, e>> \in marker'

LEMMA FilesKept ==
    ASSUME LibraryInv, FilesInv, FewMishaps, NEW o \in Ops, LeavesOthers(o), OthersKeepFiles(o),
           SameMishaps \/ Faulted,
           NoFault' => Unfailed(o)' /\ StagingMarked(o)',
           RecoveryMarked(o)',
           \A e \in Entries : ~adopted' /\ Needed(e)' => ~adopted /\ Needed(e),
           \A e \in Entries : e \in src /\ e \notin src' => Protected(o, e)',
           \A e \in Entries : ~adopted' /\ Needed(e)' /\ Protected(o, e) => e \in src' \/ Protected(o, e)'
    PROVE  FilesInv'
<1>1. LibraryRecords
  BY DEF LibraryInv
<1>2. used'["faults"] <= Budget["faults"] /\ (NoFault' => NoFault)
  BY <1>1, FaultIsFirst DEF SameMishaps, FilesInv, NoFault
<1>3. \A p \in Ops \ {o} : op'[p] = op[p] /\ intent'[p] = intent[p]
  BY DEF LeavesOthers
<1>4. ASSUME NoFault', NEW p \in Ops \ {o} PROVE Unfailed(p)' /\ StagingMarked(p)'
  <2>1. Unfailed(p) /\ StagingMarked(p)
    BY <1>2, <1>4 DEF FilesInv
  <2>2. Unfailed(p)'
    BY <1>3, <2>1 DEF Unfailed
  <2>3. StagingMarked(p)'
    BY <1>3, <1>4, <2>1 DEF StagingMarked, OthersKeepFiles
  <2> QED BY <2>2, <2>3
<1>5. ASSUME NEW p \in Ops \ {o} PROVE RecoveryMarked(p)'
  BY <1>3 DEF FilesInv, RecoveryMarked, OthersKeepFiles
<1>6. ASSUME ~adopted', NEW e \in Entries, Needed(e)' PROVE Kept(e)'
  <2>1. Kept(e)
    BY <1>6 DEF FilesInv
  <2>2. CASE e \in src
    BY <2>2 DEF Kept
  <2>3. CASE Protected(o, e)
    BY <1>6, <2>3 DEF Kept
  <2>4. ASSUME NEW p \in Ops \ {o}, Protected(p, e) PROVE Kept(e)'
    <3>1. CASE <<p, e>> \in trash'
      <4>1. Protected(p, e)'
        BY <1>3, <2>4, <3>1 DEF Protected, Held, OthersKeepFiles
      <4> QED BY <4>1 DEF Kept
    <3>2. CASE <<p, e>> \notin trash'
      BY <2>4, <3>2 DEF Protected, OthersKeepFiles, Kept
    <3> QED BY <3>1, <3>2
  <2> QED BY <2>1, <2>2, <2>3, <2>4 DEF Kept
<1> QED
  BY <1>2, <1>4, <1>5, <1>6 DEF FilesInv

(* The steps that move no revision.                                        *)
LEMMA QuietKeepsFiles ==
    ASSUME LibraryInv, FilesInv, FewMishaps, NEW o \in Ops, DeleteStep(o), OthersKeepFiles(o),
           SameMishaps \/ Faulted,
           NoFault' => Unfailed(o)' /\ StagingMarked(o)',
           RecoveryMarked(o)',
           \A e \in Entries : e \in src /\ e \notin src' => Protected(o, e)',
           \A e \in Entries : Protected(o, e) => e \in src' \/ Protected(o, e)'
    PROVE  FilesInv'
<1>1. LeavesOthers(o) /\ \A e \in Entries : ~adopted' /\ Needed(e)' => ~adopted /\ Needed(e)
  BY DEF DeleteStep, Needed
<1> QED
  BY <1>1, FilesKept

(* What a step of a delete starts from.                                    *)
LEMMA FilesFacts ==
    ASSUME LibraryInv, FilesInv, NEW o \in Ops
    PROVE  /\ NoFault => Unfailed(o) /\ StagingMarked(o)
           /\ RecoveryMarked(o)
           /\ op[o].pc \in Unrecorded => \A e \in Entries : intent[o][e] = "none"
           /\ op[o].pc \in Untouched => \A e \in Entries : <<o, e>> \notin trash
           /\ op[o].pc # "done" => \A e \in Entries : <<o, e>> \in trash => e \in op[o].batch
  BY DeleteFacts DEF FilesInv, IntentsFollow, TrashFollows, Untouched

LEMMA FilesBusy ==
    ASSUME LibraryInv, FilesInv, FewMishaps, NEW o \in Ops,
           entry_busy_reason(o) \/ acquire_operation_leases(o)
    PROVE  FilesInv'
<1>1. /\ DeleteStep(o) /\ SameFiles /\ SameMishaps /\ intent' = intent
      /\ op[o].pc \in {"busy", "lease"} /\ op'[o].pc \in {"fail", "lease", "stage"}
      /\ op'[o].kept = op[o].kept
  BY BusyEffect, LeaseEffect DEF LibraryInv
<1>2. \A e \in Entries : <<o, e>> \notin trash /\ <<o, e>> \notin trash'
  BY <1>1, FilesFacts DEF Untouched, SameFiles
<1>3. NoFault' => Unfailed(o)' /\ StagingMarked(o)'
  BY <1>1, <1>2, FilesFacts DEF NoFault, SameMishaps, Unfailed, StagingMarked
<1>4. RecoveryMarked(o)'
  BY <1>1 DEF RecoveryMarked
<1> QED
  BY <1>1, <1>2, <1>3, <1>4, QuietKeepsFiles DEF Protected, OthersKeepFiles, SameFiles

LEMMA FilesMark ==
    ASSUME LibraryInv, FilesInv, FewMishaps, NEW o \in Ops, NEW e \in Entries, write_marker(o, e)
    PROVE  FilesInv'
<1>1. /\ DeleteStep(o) /\ src' = src /\ trash' = trash /\ intent' = intent /\ op[o].pc = "stage"
      /\ op'[o].kept = op[o].kept /\ marker \subseteq marker' /\ LibraryRecords
      /\ \/ SameMishaps /\ op'[o].pc = "rename" /\ op'[o].at = {e} /\ <<o, e>> \in marker'
         \/ Faulted /\ op'[o].pc = "recover"
  BY MarkEffect DEF LibraryInv
<1>2. NoFault' => Unfailed(o)' /\ StagingMarked(o)'
  <2>1. NoFault' => op'[o].pc = "rename" /\ op'[o].at = {e} /\ <<o, e>> \in marker' /\ NoFault
    BY <1>1, FaultIsFirst DEF NoFault, SameMishaps
  <2> QED BY <1>1, <2>1, FilesFacts DEF Unfailed, StagingMarked
<1>3. ASSUME op'[o].pc = "recover" PROVE \A f \in Entries : <<o, f>> \in trash => <<o, f>> \in marker'
  BY <1>1, <1>3, FaultIsFirst, FilesFacts DEF StagingMarked
<1>4. RecoveryMarked(o)'
  BY <1>1, <1>3 DEF RecoveryMarked
<1>5. ASSUME NEW f \in Entries, Protected(o, f) PROVE Protected(o, f)'
  <2>1. intent[o][f] = "none"
    BY <1>1, FilesFacts DEF Unrecorded
  <2> QED BY <1>1, <1>3, <1>5, <2>1 DEF Protected, Held
<1> QED
  BY <1>1, <1>2, <1>4, <1>5, QuietKeepsFiles DEF OthersKeepFiles

LEMMA FilesMove ==
    ASSUME LibraryInv, FilesInv, FewMishaps, NEW o \in Ops, NEW e \in Entries, move_to_trash(o, e)
    PROVE  FilesInv'
<1>1. /\ DeleteStep(o) /\ marker' = marker /\ intent' = intent
      /\ op[o].pc = "rename" /\ op[o].at = {e} /\ op'[o].kept = op[o].kept
      /\ LibraryRecords
  BY MoveEffect DEF LibraryInv
<1>2. \/ src' = src \ {e} /\ trash' = trash \cup {<<o, e>>} /\ e \in src
      \/ src' = src /\ trash' = trash
  BY MoveEffect DEF LibraryInv
<1>3. \/ SameMishaps /\ op'[o].pc \in {"stage", "record"}
      \/ Faulted /\ op'[o].pc = "recover"
  BY MoveEffect DEF LibraryInv
<1>4. NoFault => \A f \in Entries : <<o, f>> \in trash' => <<o, f>> \in marker'
  BY <1>1, <1>2, FilesFacts DEF StagingMarked
<1>5. NoFault' => Unfailed(o)' /\ StagingMarked(o)'
  <2>1. NoFault' => op'[o].pc \in {"stage", "record"} /\ NoFault
    BY <1>1, <1>3, FaultIsFirst DEF NoFault, SameMishaps
  <2> QED BY <1>1, <1>4, <2>1, FilesFacts DEF Unfailed, StagingMarked
<1>6. op'[o].pc = "recover" => NoFault
  BY <1>1, <1>3, FaultIsFirst
<1>7. RecoveryMarked(o)'
  BY <1>4, <1>6 DEF RecoveryMarked
<1>8. ASSUME NEW f \in Entries, <<o, f>> \in trash' PROVE Protected(o, f)'
  <2>1. intent'[o][f] = "none"
    BY <1>1, FilesFacts DEF Unrecorded
  <2>2. CASE op'[o].pc \in {"stage", "record"}
    BY <1>8, <2>2 DEF Protected, Held
  <2>3. CASE op'[o].pc = "recover"
    BY <1>4, <1>6, <1>8, <2>1, <2>3 DEF Protected
  <2> QED BY <1>3, <2>2, <2>3
<1>9. \A f \in Entries : f \in src /\ f \notin src' => Protected(o, f)'
  BY <1>2, <1>8
<1>10. \A f \in Entries : Protected(o, f) => Protected(o, f)'
  BY <1>2, <1>8 DEF Protected
<1>11. OthersKeepFiles(o)
  BY <1>1, <1>2 DEF OthersKeepFiles
<1> QED
  BY <1>1, <1>3, <1>5, <1>7, <1>9, <1>10, <1>11, QuietKeepsFiles

LEMMA FilesRecover ==
    ASSUME LibraryInv, FilesInv, FewMishaps, NEW o \in Ops, recover_orphan_markers(o)
    PROVE  FilesInv'
<1>1. /\ DeleteStep(o) /\ SameMishaps /\ intent' = intent /\ LibraryTypeOK
      /\ op[o].pc = "recover" /\ op'[o].pc = "fail"
  BY RecoverEffect DEF LibraryInv
<1>2. PICK done \in SUBSET Orphans :
         /\ trash' = trash \ done /\ marker' = marker \ done
         /\ src' = src \cup {x[2] : x \in done \cap trash}
  BY RecoverEffect DEF LibraryInv
<1>3. \A p \in Ops, e \in Entries : <<p, e>> \in trash /\ <<p, e>> \notin trash' => e \in src'
  <2> SUFFICES ASSUME NEW p \in Ops, NEW e \in Entries, <<p, e>> \in done \cap trash
               PROVE  e \in src'
    BY <1>2
  <2>1. <<p, e>>[2] \in src'
    BY <1>2
  <2> QED BY <2>1
<1>4. ~NoFault /\ ~NoFault'
  BY <1>1, FilesFacts DEF Unfailed, NoFault, SameMishaps
<1>5. OthersKeepFiles(o)
  BY <1>2, <1>3, <1>4 DEF OthersKeepFiles
<1>6. ASSUME NEW e \in Entries, Protected(o, e) PROVE e \in src' \/ Protected(o, e)'
  BY <1>1, <1>2, <1>3, <1>6 DEF Protected, Held
<1>7. RecoveryMarked(o)' /\ src \subseteq src'
  BY <1>1, <1>2 DEF RecoveryMarked
<1> QED
  BY <1>1, <1>4, <1>5, <1>6, <1>7, QuietKeepsFiles

LEMMA FilesRecord ==
    ASSUME LibraryInv, FilesInv, FewMishaps, NEW o \in Ops, record_library_delete_intents(o)
    PROVE  FilesInv'
<1>1. DeleteStep(o) /\ SameFiles /\ op[o].pc = "record" /\ LibraryRecords
  BY RecordEffect DEF LibraryInv
<1>2. \/ /\ SameMishaps /\ op'[o].pc = "commit" /\ op'[o].kept = op[o].kept
         /\ \A e \in Entries : intent'[o][e] = IF e \in op[o].batch THEN "staged" ELSE "none"
      \/ Faulted /\ op'[o].pc = "rollback" /\ op'[o].todo = op[o].batch
  BY RecordEffect DEF LibraryInv
<1>3. NoFault' => Unfailed(o)' /\ StagingMarked(o)'
  <2>1. NoFault' => NoFault /\ op'[o].pc = "commit" /\ op'[o].kept = op[o].kept
    BY <1>1, <1>2, FaultIsFirst DEF NoFault, SameMishaps
  <2> QED BY <2>1, FilesFacts DEF Unfailed, StagingMarked
<1>4. RecoveryMarked(o)'
  BY <1>2 DEF RecoveryMarked
<1>5. ASSUME NEW e \in Entries, Protected(o, e) PROVE Protected(o, e)'
  <2>1. <<o, e>> \in trash' /\ e \in op[o].batch
    BY <1>1, <1>5, FilesFacts DEF Protected, SameFiles
  <2>2. \/ intent'[o][e] = "staged"
        \/ op'[o].pc = "rollback" /\ e \in op'[o].todo
    BY <1>2, <2>1
  <2> QED BY <2>1, <2>2 DEF Protected, Held
<1> QED
  BY <1>1, <1>2, <1>3, <1>4, <1>5, QuietKeepsFiles DEF OthersKeepFiles, SameFiles

(* A commit takes the rows of its batch away and moves the revision on, so *)
(* nothing of what it holds is needed any more.                            *)
LEMMA FilesCommit ==
    ASSUME LibraryInv, LibraryInv', FilesInv, FewMishaps, NEW o \in Ops,
           commit_library_delete_if_revision(o)
    PROVE  FilesInv'
<1>1. /\ memRev' = memRev /\ adopted' = adopted /\ dl' = dl /\ SameFiles /\ LeavesOthers(o)
      /\ op[o].pc = "commit" /\ op'[o].batch = op[o].batch /\ op'[o].todo = op[o].batch
      /\ op'[o].kept = op[o].kept /\ LibraryRecords
  BY CommitEffect DEF LibraryInv
<1>2. CASE op'[o].pc = "rollback"
  <2>1. /\ SameMishaps \/ Faulted
        /\ row' = row /\ diskRev' = diskRev /\ intent' = intent
    BY <1>2, CommitEffect DEF LibraryInv
  <2>2. NoFault' => Unfailed(o)' /\ StagingMarked(o)'
    <3>1. NoFault' => NoFault
      BY <1>1, <2>1, FaultIsFirst DEF NoFault, SameMishaps
    <3> QED BY <1>1, <1>2, <3>1, FilesFacts DEF Unfailed, StagingMarked
  <2>3. RecoveryMarked(o)'
    BY <1>2 DEF RecoveryMarked
  <2>4. ASSUME NEW e \in Entries, Protected(o, e) PROVE Protected(o, e)'
    <3>1. <<o, e>> \in trash' /\ e \in op[o].batch
      BY <1>1, <2>4, FilesFacts DEF Protected, SameFiles
    <3> QED BY <1>1, <1>2, <3>1 DEF Protected, Held
  <2>5. \A e \in Entries : ~adopted' /\ Needed(e)' => ~adopted /\ Needed(e)
    BY <1>1, <2>1 DEF Needed
  <2> QED
    BY <1>1, <2>1, <2>2, <2>3, <2>4, <2>5, FilesKept DEF OthersKeepFiles, SameFiles
<1>3. CASE op'[o].pc = "cleanup"
  <2>1. /\ SameMishaps /\ diskRev = op[o].expected /\ row' = Without(row, op[o].batch)
        /\ op'[o].committed = diskRev'
    BY <1>3, CommitEffect DEF LibraryInv
  <2>2. NoFault' => Unfailed(o)' /\ StagingMarked(o)'
    BY <1>1, <1>3, <2>1, FilesFacts DEF Unfailed, StagingMarked, NoFault, SameMishaps
  <2>3. RecoveryMarked(o)'
    BY <1>3 DEF RecoveryMarked
  <2>4. ASSUME ~adopted PROVE diskRev < diskRev'
    <3>1. memRev' < diskRev'
      BY <1>1, <1>3, <2>1, <2>4 DEF LibraryInv, CopyIsCurrent, SettlesTrue, AfterCommit
    <3>2. diskRev <= memRev
      BY <1>1, <2>1, <2>4 DEF LibraryInv, CopyIsCurrent, ReadsTrue, BeforeCommit
    <3>3. diskRev \in Nat /\ diskRev' \in Nat /\ memRev \in Nat
      BY DEF LibraryInv, LibraryTypeOK
    <3> QED BY <1>1, <3>1, <3>2, <3>3
  <2>5. ASSUME NEW e \in Entries, ~adopted, Needed(e)' PROVE row[e] # "absent" /\ e \notin op[o].batch
    <3>1. \A d \in Deliverers : dl[d].pc = "write" => dl[d].expected # diskRev'
      <4> SUFFICES ASSUME NEW d \in Deliverers, dl[d].pc = "write" PROVE dl[d].expected # diskRev'
        OBVIOUS
      <4>1. dl[d].expected <= diskRev /\ dl[d].expected \in Nat /\ diskRev \in Nat /\ diskRev' \in Nat
        BY DEF LibraryInv, LibraryTypeOK, LibraryRecords, DeliveryRecords, DeliveryInBounds
      <4> QED BY <2>4, <2>5, <4>1
    <3>2. row'[e] # "absent"
      BY <1>1, <2>5, <3>1 DEF Needed
    <3> QED BY <2>1, <3>2 DEF Without
  <2>6. \A e \in Entries : ~adopted' /\ Needed(e)' => ~adopted /\ Needed(e)
    BY <1>1, <2>5 DEF Needed
  <2>7. \A e \in Entries : ~adopted' /\ Needed(e)' => ~Protected(o, e)
    BY <1>1, <2>5, FilesFacts DEF Protected
  <2> QED
    BY <1>1, <2>1, <2>2, <2>3, <2>6, <2>7, FilesKept DEF OthersKeepFiles, SameFiles
<1> QED
  BY <1>2, <1>3, CommitEffect DEF LibraryInv

LEMMA FilesRollback ==
    ASSUME LibraryInv, FilesInv, FewMishaps, NEW o \in Ops, NEW e \in Entries, rollback_staged(o, e)
    PROVE  FilesInv'
<1>1. /\ DeleteStep(o) /\ intent' = intent /\ marker' = marker \ {<<o, e>>}
      /\ op[o].pc = "rollback" /\ e \in op[o].todo /\ op'[o].todo = op[o].todo \ {e}
      /\ op'[o].kept = op[o].kept /\ LibraryRecords
      /\ op'[o].pc = IF op'[o].todo = {} THEN "abort" ELSE "rollback"
  BY RollbackEffect DEF LibraryInv
<1>2. SameMishaps \/ Faulted
  BY RollbackEffect DEF LibraryInv
<1>3. \/ trash' = trash \ {<<o, e>>} /\ src' = IF <<o, e>> \in trash THEN src \cup {e} ELSE src
      \/ trash' = trash /\ src' = src /\ (e \in src \/ Faulted)
  BY RollbackEffect DEF LibraryInv
<1>4. NoFault' => Unfailed(o)' /\ StagingMarked(o)'
  <2>1. NoFault' => NoFault
    BY <1>1, <1>2, FaultIsFirst DEF NoFault, SameMishaps
  <2> QED BY <1>1, <2>1, FilesFacts DEF Unfailed, StagingMarked
<1>5. RecoveryMarked(o)'
  BY <1>1 DEF RecoveryMarked
<1>6. src \subseteq src' /\ OthersKeepFiles(o)
  BY <1>1, <1>3 DEF OthersKeepFiles
<1>7. ASSUME NEW f \in Entries, Protected(o, f) PROVE f \in src' \/ Protected(o, f)'
  <2>1. CASE f # e
    <3>1. f \in op[o].todo => f \in op'[o].todo /\ op'[o].pc = "rollback"
      BY <1>1, <2>1
    <3> QED BY <1>1, <1>3, <1>7, <2>1, <3>1 DEF Protected, Held
  <2>2. CASE f = e
    <3>1. CASE e \in src'
      BY <2>2, <3>1
    <3>2. CASE e \notin src'
      <4>1. trash' = trash /\ Faulted
        BY <1>3, <1>7, <2>2, <3>2 DEF Protected
      <4>2. op[o].kept = TRUE
        BY <1>1, <4>1, FaultIsFirst, FilesFacts DEF Unfailed
      <4>3. intent[o][e] = "staged"
        BY <1>1, <4>2, DeleteFacts DEF IntentsFollow
      <4>4. <<o, f>> \in trash' /\ intent'[o][f] = "staged"
        BY <1>1, <1>7, <2>2, <4>1, <4>3 DEF Protected
      <4> QED BY <4>4 DEF Protected
    <3> QED BY <3>1, <3>2
  <2> QED BY <2>1, <2>2
<1> QED
  BY <1>1, <1>2, <1>4, <1>5, <1>6, <1>7, QuietKeepsFiles

LEMMA FilesAbort ==
    ASSUME LibraryInv, FilesInv, FewMishaps, NEW o \in Ops, abort_library_delete(o)
    PROVE  FilesInv'
<1>1. /\ DeleteStep(o) /\ SameFiles /\ op[o].pc = "abort" /\ op'[o].pc = "fail"
      /\ op'[o].kept = op[o].kept /\ (SameMishaps \/ Faulted) /\ LibraryRecords
  BY AbortEffect DEF LibraryInv
<1>2. \/ intent' = intent
      \/ /\ op[o].at # {NoOne} \/ ~op[o].kept
         /\ \A e \in Entries :
              intent'[o][e] = IF intent[o][e] = "staged" THEN "none" ELSE intent[o][e]
  BY AbortEffect DEF LibraryInv
<1>3. NoFault' => Unfailed(o)' /\ StagingMarked(o)'
  <2>1. NoFault' => NoFault
    BY <1>1, FaultIsFirst DEF NoFault, SameMishaps
  <2> QED BY <1>1, <2>1, FilesFacts DEF Unfailed, StagingMarked
<1>4. RecoveryMarked(o)'
  BY <1>1 DEF RecoveryMarked
<1>5. ASSUME NEW e \in Entries, Protected(o, e) PROVE Protected(o, e)'
  <2>1. e \in op[o].batch /\ <<o, e>> \in trash /\ op[o].todo = {}
    BY <1>1, <1>5, FilesFacts, DeleteFacts DEF Protected, DeleteInBounds
  <2>2. op[o].at = {NoOne}
    BY <1>1, <2>1, DeleteFacts DEF TrashFollows
  <2>3. intent'[o][e] = intent[o][e]
    <3>1. CASE intent' = intent
      BY <3>1
    <3>2. CASE /\ ~op[o].kept
               /\ \A f \in Entries :
                    intent'[o][f] = IF intent[o][f] = "staged" THEN "none" ELSE intent[o][f]
      <4>1. intent[o][e] = "none"
        BY <1>1, <2>1, <3>2, DeleteFacts DEF IntentsFollow
      <4> QED BY <3>2, <4>1
    <3> QED BY <1>2, <2>2, <3>1, <3>2
  <2> QED BY <1>1, <1>5, <2>3 DEF Protected, Held, SameFiles
<1> QED
  BY <1>1, <1>3, <1>4, <1>5, QuietKeepsFiles DEF OthersKeepFiles, SameFiles

LEMMA FilesFinish ==
    ASSUME LibraryInv, FilesInv, FewMishaps, NEW o \in Ops,
           finalize_library_delete(o) \/ \E e \in Entries : cleanup_committed_delete(o, e)
    PROVE  FilesInv'
<1>1. /\ DeleteStep(o) /\ src' = src /\ op[o].pc \in {"cleanup", "finalize"}
      /\ op'[o].pc \in {"cleanup", "finalize", "settle"}
      /\ op'[o].kept = op[o].kept /\ (SameMishaps \/ Faulted) /\ LibraryRecords
  BY CleanupEffect, FinalizeEffect DEF LibraryInv, SameFiles
<1>2. \A p \in Ops \ {o}, f \in Entries : /\ <<p, f>> \in trash <=> <<p, f>> \in trash'
                                          /\ <<p, f>> \in marker <=> <<p, f>> \in marker'
  BY CleanupEffect, FinalizeEffect DEF LibraryInv, SameFiles
<1>3. NoFault' => Unfailed(o)' /\ StagingMarked(o)'
  <2>1. NoFault' => NoFault
    BY <1>1, FaultIsFirst DEF NoFault, SameMishaps
  <2> QED BY <1>1, <2>1, FilesFacts DEF Unfailed, StagingMarked
<1>4. RecoveryMarked(o)'
  BY <1>1 DEF RecoveryMarked
<1>5. ASSUME NEW e \in Entries, Protected(o, e) PROVE FALSE
  <2>1. e \in op[o].batch
    BY <1>1, <1>5, FilesFacts DEF Protected
  <2>2. intent[o][e] = "committed"
    BY <1>1, <2>1, DeleteFacts DEF IntentsFollow
  <2> QED BY <1>1, <1>5, <2>2 DEF Protected, Held
<1> QED
  BY <1>1, <1>2, <1>3, <1>4, <1>5, QuietKeepsFiles DEF OthersKeepFiles

LEMMA FilesRelease ==
    ASSUME LibraryInv, FilesInv, FewMishaps, NEW o \in Ops, release_library_delete_keys(o)
    PROVE  FilesInv'
<1>1. /\ row' = row /\ diskRev' = diskRev /\ adopted' = adopted /\ dl' = dl
      /\ SameFiles /\ SameMishaps /\ LeavesOthers(o) /\ intent' = intent
      /\ op[o].pc \in {"settle", "fail"} /\ op'[o].pc = "done"
  BY ReleaseEffect DEF LibraryInv
<1>2. op'[o].kept = op[o].kept
  <2>1. Goto(o, "done") /\ "done" \in DeletePlaces
    BY DEF release_library_delete_keys, DeletePlaces
  <2> QED BY <2>1, GotoEffect DEF LibraryInv
<1>3. NoFault' => Unfailed(o)' /\ StagingMarked(o)'
  BY <1>1, <1>2, FilesFacts DEF NoFault, SameMishaps, Unfailed, StagingMarked
<1>4. RecoveryMarked(o)' /\ \A e \in Entries : Protected(o, e) => Protected(o, e)'
  BY <1>1 DEF RecoveryMarked, Protected, Held, SameFiles
<1>5. \A e \in Entries : ~adopted' /\ Needed(e)' => ~adopted /\ Needed(e)
  BY <1>1 DEF Needed
<1> QED
  BY <1>1, <1>3, <1>4, <1>5, FilesKept DEF OthersKeepFiles, SameFiles

LEMMA FilesCommand ==
    ASSUME LibraryInv, FilesInv, FewMishaps, NEW o \in Ops, NEW batch \in (SUBSET Entries) \ {{}},
           remove_library_entries(o, batch)
    PROVE  FilesInv'
<1>1. /\ row' = row /\ diskRev' = diskRev /\ adopted' = adopted /\ dl' = dl
      /\ SameFiles /\ SameMishaps /\ LeavesOthers(o) /\ intent' = intent /\ op[o].pc = "idle"
      /\ op'[o].pc \in {"busy", "done"} /\ op'[o].kept \in {TRUE, op[o].kept}
  BY CommandEffect DEF LibraryInv
<1>2. NoFault' => Unfailed(o)' /\ StagingMarked(o)'
  BY <1>1, FilesFacts DEF NoFault, SameMishaps, Unfailed, StagingMarked
<1>3. RecoveryMarked(o)' /\ \A e \in Entries : ~Protected(o, e)
  BY <1>1, FilesFacts DEF RecoveryMarked, Protected, Untouched
<1>4. \A e \in Entries : ~adopted' /\ Needed(e)' => ~adopted /\ Needed(e)
  BY <1>1 DEF Needed
<1> QED
  BY <1>1, <1>2, <1>3, <1>4, FilesKept DEF OthersKeepFiles, SameFiles

(* The steps of the others: they take no files away.                       *)
LEMMA OtherKeepsFiles ==
    ASSUME LibraryInv, FilesInv, OtherStep, SameMishaps,
           \A e \in Entries : ~adopted' /\ Needed(e)' => e \in src' \/ (~adopted /\ Needed(e))
    PROVE  FilesInv'
<1>1. used'["faults"] <= Budget["faults"] /\ (NoFault' => NoFault)
  BY DEF FilesInv, SameMishaps, NoFault
<1>2. \A o \in Ops : /\ Unfailed(o)' <=> Unfailed(o)
                     /\ StagingMarked(o)' <=> StagingMarked(o)
                     /\ RecoveryMarked(o)' <=> RecoveryMarked(o)
  BY DEF OtherStep, Unfailed, StagingMarked, RecoveryMarked
<1>3. \A e \in Entries : Kept(e) => Kept(e)'
  BY DEF OtherStep, Kept, Protected, Held
<1>4. \A e \in Entries : e \in src' => Kept(e)'
  BY DEF Kept
<1> QED
  BY <1>1, <1>2, <1>3, <1>4 DEF FilesInv

LEMMA FilesLease ==
    ASSUME LibraryInv, FilesInv, NEW e \in Entries,
           download_session(e) \/ acquire_upload_lease(e) \/ release_upload_lease(e)
    PROVE  FilesInv'
<1>1. SameMishaps
  BY EventEffect DEF LibraryInv, LibraryRecords, download_session, acquire_upload_lease,
     release_upload_lease, Kinds, SameMishaps
<1>2. OtherStep /\ SameRows /\ dl' = dl
  BY DEF download_session, acquire_upload_lease, release_upload_lease, OtherStep, SameRows, appStore,
     copy, files
<1>3. \A f \in Entries : Needed(f)' => Needed(f)
  BY <1>2 DEF Needed, SameRows
<1> QED
  BY <1>1, <1>2, <1>3, OtherKeepsFiles DEF SameRows

LEMMA FilesApply ==
    ASSUME LibraryInv, FilesInv, NEW d \in Deliverers, NEW e \in Entries, apply_download_completion(d, e)
    PROVE  FilesInv'
<1>1. /\ OtherStep /\ SameRows /\ SameMishaps /\ e \in src'
      /\ dl' = [dl EXCEPT ![d] = [pc |-> "write", at |-> e, expected |-> memRev, seen |-> mem[e]]]
  BY DEF apply_download_completion, OtherStep, SameRows, appStore, copy, files, LibraryInv, LibraryRecords,
     SameMishaps
<1>2. dl \in [Deliverers -> DeliveryRecords]
  BY DEF LibraryInv, LibraryRecords
<1>3. \A c \in Deliverers \ {d} : dl'[c] = dl[c]
  BY <1>1, <1>2
<1>4. dl'[d].at = e
  BY <1>1, <1>2
<1>5. ASSUME NEW f \in Entries, Needed(f)' PROVE f \in src' \/ Needed(f)
  BY <1>1, <1>3, <1>4, <1>5 DEF Needed, SameRows
<1> QED
  BY <1>1, <1>5, OtherKeepsFiles DEF SameRows

LEMMA FilesAck ==
    ASSUME LibraryInv, FilesInv, NEW d \in Deliverers, acknowledge_projected_completion(d)
    PROVE  FilesInv'
<1>1. OtherStep /\ SameRows /\ SameMishaps /\ Deferred(d) /\ dl[d].pc # "idle"
  BY DEF acknowledge_projected_completion, OtherStep, SameRows, appStore, copy, files, LibraryInv,
     LibraryRecords, SameMishaps
<1>2. \A c \in Deliverers : dl'[c].pc = "write" =>
         dl[c].pc = "write" /\ dl'[c].at = dl[c].at /\ dl'[c].expected = dl[c].expected
  BY <1>1, DeliveryEffect
<1>3. \A f \in Entries : Needed(f)' => Needed(f)
  BY <1>1, <1>2 DEF Needed, SameRows
<1> QED
  BY <1>1, <1>3, OtherKeepsFiles DEF SameRows

LEMMA FilesUpsert ==
    ASSUME LibraryInv, FilesInv, NEW d \in Deliverers, upsert_library_entry_if_revision(d)
    PROVE  FilesInv'
<1> DEFINE e == dl[d].at
<1>1. /\ OtherStep /\ used' = used /\ dl[d].pc = "write" /\ e \in Entries
      /\ (Deferred(d) \/ Acknowledge(d))
  BY UpsertEffect
<1>2. \/ row' = row /\ diskRev' = diskRev /\ (~adopted' => ~adopted)
      \/ /\ diskRev = dl[d].expected /\ row' = [row EXCEPT ![e] = "new"] /\ diskRev' = diskRev + 1
         /\ adopted' = adopted
  BY UpsertEffect DEF SameRows
<1>3. \A c \in Deliverers : dl'[c].pc = "write" =>
         dl[c].pc = "write" /\ dl'[c].at = dl[c].at /\ dl'[c].expected = dl[c].expected
  BY <1>1, DeliveryEffect
<1> HIDE DEF e
<1>4. ASSUME NEW f \in Entries, ~adopted', Needed(f)' PROVE ~adopted /\ Needed(f)
  <2>1. CASE row' = row /\ diskRev' = diskRev /\ (~adopted' => ~adopted)
    BY <1>3, <1>4, <2>1 DEF Needed
  <2>2. CASE /\ diskRev = dl[d].expected /\ row' = [row EXCEPT ![e] = "new"] /\ diskRev' = diskRev + 1
             /\ adopted' = adopted
    <3>1. ASSUME NEW c \in Deliverers, dl'[c].pc = "write" PROVE dl'[c].expected # diskRev'
      <4>1. dl[c].expected <= diskRev /\ dl[c].expected \in Nat /\ diskRev \in Nat
        BY <1>3, <3>1 DEF LibraryInv, LibraryTypeOK, LibraryRecords, DeliveryRecords, DeliveryInBounds
      <4> QED BY <1>3, <2>2, <3>1, <4>1
    <3>2. row'[f] # "absent"
      BY <1>4, <3>1 DEF Needed
    <3>3. CASE f = e
      BY <1>1, <1>4, <2>2, <3>3 DEF Needed, e
    <3>4. CASE f # e
      <4>1. row'[f] = row[f]
        BY <2>2, <3>4 DEF LibraryInv, LibraryTypeOK
      <4> QED BY <1>4, <2>2, <3>2, <4>1 DEF Needed
    <3> QED BY <3>3, <3>4
  <2> QED BY <1>2, <2>1, <2>2
<1>5. SameMishaps
  BY <1>1 DEF SameMishaps, LibraryInv, LibraryRecords
<1> QED
  BY <1>1, <1>4, <1>5, OtherKeepsFiles

LEMMA FilesSave ==
    ASSUME LibraryInv, FilesInv,
           persist_result \/ load_projection \/ replace_media_library_entry_if_revision
    PROVE  FilesInv'
<1>1. SameMishaps
  BY EventEffect DEF LibraryInv, LibraryRecords, persist_result, load_projection,
     replace_media_library_entry_if_revision, Kinds, SameMishaps
<1>2. /\ OtherStep /\ dl' = dl /\ adopted' = adopted /\ diskRev' \in {diskRev, diskRev + 1}
      /\ \/ row' = row
         \/ row' = mem /\ memRev = diskRev
  BY DEF persist_result, load_projection, replace_media_library_entry_if_revision, OtherStep, RevisionIs,
     files, appStore, copy
<1>3. ASSUME NEW f \in Entries, ~adopted', Needed(f)' PROVE ~adopted /\ Needed(f)
  <2>1. ~adopted /\ row' = row
    BY <1>2, <1>3 DEF LibraryInv, CopyIsCurrent
  <2>2. ASSUME NEW c \in Deliverers, dl[c].pc = "write", dl[c].expected = diskRev' PROVE diskRev' = diskRev
    <3>1. dl[c].expected <= diskRev /\ dl[c].expected \in Nat /\ diskRev \in Nat
      BY <2>2 DEF LibraryInv, LibraryTypeOK, LibraryRecords, DeliveryRecords, DeliveryInBounds
    <3> QED BY <1>2, <2>2, <3>1
  <2> QED BY <1>2, <1>3, <2>1, <2>2 DEF Needed
<1> QED
  BY <1>1, <1>2, <1>3, OtherKeepsFiles

LEMMA FilesCrash ==
    ASSUME LibraryInv, FilesInv, FewMishaps, crash
    PROVE  FilesInv'
<1>1. NoFault /\ NoFault' /\ used'["faults"] <= Budget["faults"]
  BY CrashIsFirst DEF LibraryInv, crash
<1>2. /\ row' = row /\ diskRev' = diskRev /\ intent' = intent /\ adopted' = adopted /\ SameFiles
      /\ dl' = [d \in Deliverers |-> IdleDelivery]
  BY DEF crash, appStore, files, SameFiles
<1>3. \A o \in Ops : op'[o].pc \in {"idle", "done"} /\ op'[o].kept = TRUE
  BY CrashOps
<1>4. \A o \in Ops : Unfailed(o)' /\ StagingMarked(o)' /\ RecoveryMarked(o)'
  BY <1>3 DEF Unfailed, StagingMarked, RecoveryMarked
<1>5. ASSUME NEW o \in Ops, NEW e \in Entries, Protected(o, e) PROVE Protected(o, e)'
  <2>1. CASE op[o].pc \in {"stage", "rename", "record"}
    <3>1. <<o, e>> \in marker /\ intent[o][e] = "none"
      BY <1>1, <1>5, <2>1, FilesFacts DEF StagingMarked, Protected, Unrecorded
    <3> QED BY <1>2, <1>5, <3>1 DEF Protected, SameFiles
  <2>2. CASE op[o].pc = "rollback" /\ e \in op[o].todo
    <3>1. op[o].kept = TRUE
      BY <1>1, FilesFacts DEF Unfailed
    <3>2. intent[o][e] = "staged"
      BY <2>2, <3>1, DeleteFacts DEF IntentsFollow
    <3> QED BY <1>2, <1>5, <3>2 DEF Protected, SameFiles
  <2>3. CASE ~Held(o, e)
    BY <1>2, <1>5, <2>3 DEF Protected, SameFiles
  <2> QED BY <2>1, <2>2, <2>3 DEF Held
<1>6. \A e \in Entries : Needed(e)' => Needed(e)
  <2>1. IdleDelivery.pc = "idle"
    BY DEF IdleDelivery
  <2> QED BY <1>2, <2>1 DEF Needed
<1>7. \A e \in Entries : Kept(e) => Kept(e)'
  BY <1>2, <1>5 DEF Kept, SameFiles
<1> QED
  BY <1>1, <1>2, <1>4, <1>6, <1>7 DEF FilesInv

LEMMA FilesStartup ==
    ASSUME LibraryInv, FilesInv, recover_pending_deletes
    PROVE  FilesInv'
<1>1. /\ ~up /\ row' = row /\ diskRev' = diskRev /\ op' = op /\ dl' = dl
      /\ used' = used /\ adopted' = adopted
      /\ src' = src \cup {x[2] : x \in Returned \cap trash}
  BY StartupEffect
<1>2. \A o \in Ops : op[o].pc \in {"idle", "done"}
  BY <1>1 DEF LibraryInv, AtRest
<1>3. \A o \in Ops : StagingMarked(o)' /\ RecoveryMarked(o)' /\ (Unfailed(o) => Unfailed(o)')
  BY <1>1, <1>2 DEF Unfailed, StagingMarked, RecoveryMarked
<1>4. ASSUME NEW o \in Ops, NEW e \in Entries, Protected(o, e) PROVE e \in src'
  <2>1. <<o, e>> \in trash /\ ~Held(o, e)
    BY <1>2, <1>4 DEF Protected, Held
  <2>2. <<o, e>> \in Returned
    BY <1>4, <2>1, OrphanFacts DEF Protected, Returned, Staged, LibraryInv
  <2>3. <<o, e>>[2] \in src'
    BY <1>1, <2>1, <2>2
  <2> QED BY <2>3
<1>5. \A e \in Entries : Kept(e) => Kept(e)'
  BY <1>1, <1>4 DEF Kept
<1>6. (NoFault' <=> NoFault) /\ \A e \in Entries : Needed(e)' <=> Needed(e)
  BY <1>1 DEF Needed, NoFault
<1> QED
  BY <1>1, <1>3, <1>5, <1>6 DEF FilesInv

LEMMA FilesStart == LibraryInit => FilesInv
<1> SUFFICES ASSUME LibraryInit PROVE FilesInv
  OBVIOUS
<1>1. used["faults"] <= Budget["faults"]
  BY LibraryConstants DEF LibraryInit, Kinds
<1>2. \A o \in Ops : Unfailed(o) /\ StagingMarked(o) /\ RecoveryMarked(o)
  BY IdleFacts DEF LibraryInit, Unfailed, StagingMarked, RecoveryMarked
<1>3. \A e \in Entries : Kept(e)
  BY DEF LibraryInit, Kept
<1> QED BY <1>1, <1>2, <1>3 DEF FilesInv

LEMMA FilesStep ==
    ASSUME FewMishaps
    PROVE  LibraryInv /\ LibraryInv' /\ FilesInv /\ [LibraryNext]_libVars => FilesInv'
<1> SUFFICES ASSUME LibraryInv, LibraryInv', FilesInv, [LibraryNext]_libVars PROVE FilesInv'
  OBVIOUS
<1>1. ASSUME NEW o \in Ops, delete_entries(o) PROVE FilesInv'
  BY <1>1, FilesBusy, FilesRecover, FilesRecord, FilesCommit, FilesAbort, FilesFinish, FilesRelease,
     FilesMark, FilesMove, FilesRollback DEF delete_entries
<1>2. ASSUME NEW d \in Deliverers, deliver_terminal_outcomes(d) PROVE FilesInv'
  BY <1>2, FilesApply, FilesUpsert, FilesAck DEF deliver_terminal_outcomes
<1>3. CASE UNCHANGED libVars
  BY <1>3 DEF libVars, appStore, copy, files, FilesInv, NoFault, Unfailed, StagingMarked, RecoveryMarked,
     Needed, Kept, Protected, Held
<1> QED
  BY <1>1, <1>2, <1>3, FilesCommand, FilesLease, FilesSave, FilesCrash, FilesStartup DEF LibraryNext

(* RowKeepsFiles, for any entries, deletes and deliverers and any number   *)
(* of crashes when no step fails; and when one step fails and nothing else *)
(* goes wrong.                                                             *)
THEOREM RowsKeepFiles ==
    ASSUME FewMishaps
    PROVE  LibrarySpec => []RowKeepsFiles
<1>1. LibraryInit => FilesInv
  BY FilesStart
<1>2. LibraryInv /\ LibraryInv' /\ FilesInv /\ [LibraryNext]_libVars => FilesInv'
  BY FilesStep
<1>3. LibraryInv /\ FilesInv => RowKeepsFiles
  <2> SUFFICES ASSUME LibraryInv, FilesInv, ~adopted, NEW e \in Entries, row[e] # "absent", ~InFlight(e),
                      e \notin src
               PROVE  \E o \in Ops : <<o, e>> \in trash /\ (Staged(<<o, e>>) \/ <<o, e>> \in Orphans)
    BY DEF RowKeepsFiles
  <2>1. PICK o \in Ops : Protected(o, e)
    BY DEF FilesInv, Needed, Kept
  <2>2. ~Held(o, e)
    <3>1. op[o].pc # "done" => e \in op[o].batch
      BY <2>1, FilesFacts DEF Protected
    <3> QED BY <3>1 DEF Held, InFlight
  <2>3. <<o, e>> \in trash /\ (Staged(<<o, e>>) \/ <<o, e>> \in Orphans)
    BY <2>1, <2>2, OrphanFacts DEF Protected, Staged, LibraryInv
  <2> QED BY <2>3
<1> QED
  BY <1>1, <1>2, <1>3, LibraryInvariant, PTL DEF LibrarySpec
=============================================================================
