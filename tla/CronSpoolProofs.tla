-------------------------- MODULE CronSpoolProofs --------------------------
(***************************************************************************)
(* Proofs about crontab(1) and load_database() over one spool directory,   *)
(* for any number of users, processes, texts and time stamps.              *)
(***************************************************************************)
EXTENDS CronSpool, TLAPS

Labels == {"idle", "edit", "exited", "install", "temp", "checked",
           "failed", "renamed", "rejected"}

-----------------------------------------------------------------------------
(* Types.                                                                    *)

\* None is a text of its own: number 0, stamped 0.
LEMMA NoneFields ==
    /\ None \in Texts
    /\ None.id = 0 /\ None.mtime = 0
    /\ None.whole = FALSE /\ None.valid = FALSE
BY CrontabConstants DEF None, Texts

\* An operation that stamps a file finds the clock in its range, and in a
\* second of its own unless SameSecond.
LEMMA StampRange ==
    ASSUME now \in 1..MaxTime, Stamp
    PROVE  /\ now' \in 1..MaxTime
           /\ now <= now'
           /\ SameSecond = FALSE => now < now'
BY CrontabConstants DEF Stamp

\* A text that is given a new stamp, and perhaps found whole, is a text.
LEMMA Restamped ==
    ASSUME NEW t \in Texts, NEW m \in 0..MaxTime, NEW w \in BOOLEAN
    PROVE  /\ [t EXCEPT !.mtime = m, !.whole = w] \in Texts
           /\ [t EXCEPT !.mtime = m, !.whole = w].mtime = m
           /\ [t EXCEPT !.mtime = m, !.whole = w].whole = w
           /\ [t EXCEPT !.mtime = m, !.whole = w].valid = t.valid
BY DEF Texts

\* Complete and syntactically valid, unless an I/O error went unnoticed.
InOrder(t) == t.lost \/ (t.whole /\ t.valid)

\* Whatever WriteTemp makes of the file is a text, in order if it passes.
LEMMA Copied ==
    ASSUME NEW p \in Procs, temp[p] \in Texts, NEW t \in Copies(p), NEW m \in 0..MaxTime
    PROVE  /\ [t EXCEPT !.mtime = m] \in Texts
           /\ [t EXCEPT !.mtime = m].mtime = m
           /\ CheckTemp(t) = "checked" => InOrder([t EXCEPT !.mtime = m])
           /\ CheckTemp(t) \in {"checked", "failed"}
<1>1. CASE t = [temp[p] EXCEPT !.whole = TRUE]
  BY <1>1 DEF Texts, InOrder, CheckTemp
<1>2. ASSUME NEW v \in BOOLEAN, t = [temp[p] EXCEPT !.lost = TRUE, !.valid = v]
      PROVE  /\ [t EXCEPT !.mtime = m] \in Texts
             /\ [t EXCEPT !.mtime = m].mtime = m /\ [t EXCEPT !.mtime = m].lost
             /\ CheckTemp(t) \in {"checked", "failed"}
  BY <1>2 DEF Texts, CheckTemp
<1> QED
  BY <1>1, <1>2 DEF Copies, InOrder

\* What the user writes is a text with the next number.
LEMMA NewTextType ==
    ASSUME version \in 0..MaxVersion, version < MaxVersion,
           NEW m \in 0..MaxTime, NEW v \in BOOLEAN
    PROVE  /\ NewText(m, v) \in Texts
           /\ NewText(m, v).mtime = m
           /\ NewText(m, v).id = version + 1
           /\ version + 1 \in 0..MaxVersion
BY CrontabConstants DEF NewText, Texts

\* TypeOK holds at first.
LEMMA TypeInit == Init => TypeOK
BY NoneFields, CrontabConstants DEF Init, TypeOK

\* Every step of a crontab process keeps the types.
LEMMA TypeStep ==
    ASSUME TypeOK, NEW p \in Procs, Step(p)
    PROVE  TypeOK'
<1>n. None \in Texts
  BY NoneFields
<1>s. Stamp => now' \in 1..MaxTime
  BY StampRange DEF TypeOK
<1>q. Quit(p) => /\ pc' \in [Procs -> Labels]
                 /\ edit' \in [Procs -> Texts]
                 /\ base' \in [Procs -> Texts]
                 /\ mode' \in [Procs -> {"replace", "edit"}]
  BY <1>n DEF Quit, Goto, TypeOK, Labels
<1>g. ASSUME NEW l \in Labels, Goto(p, l)
      PROVE  pc' \in [Procs -> Labels]
  BY <1>g DEF Goto, TypeOK, Labels
<1> USE DEF spool
<1>1. CASE delete_cmd(p)
  BY <1>1, <1>n, <1>s, <1>g DEF delete_cmd, TypeOK, Labels
<1>2. CASE BeginEdit(p)
  BY <1>2, <1>g DEF BeginEdit, TypeOK, Labels
<1>3. CASE EditorDone(p)
  BY <1>3, <1>g DEF EditorDone, TypeOK, Labels
<1>4. CASE EditorFails(p)
  BY <1>4, <1>q DEF EditorFails, TypeOK, Labels
<1>5. CASE RemoveEdit(p)
  BY <1>5, <1>q DEF RemoveEdit, TypeOK, Labels
<1>6. ASSUME NEW v \in BOOLEAN, Save(p, v)
      PROVE  TypeOK'
  <2>1. NewText(now', v) \in Texts /\ version + 1 \in 0..MaxVersion
    BY <1>6, <1>s, NewTextType DEF Save, TypeOK
  <2> QED
    BY <1>6, <1>s, <2>1 DEF Save, TypeOK
<1>7. ASSUME NEW v \in BOOLEAN, BeginReplace(p, v)
      PROVE  TypeOK'
  <2>1. NewText(0, v) \in Texts /\ version + 1 \in 0..MaxVersion
    BY <1>7, NewTextType, CrontabConstants DEF BeginReplace, TypeOK
  <2> QED
    BY <1>7, <1>g, <2>1 DEF BeginReplace, TypeOK, Labels
<1>8. ASSUME NEW a \in BOOLEAN, Rejected(p, a)
      PROVE  TypeOK'
  BY <1>8, <1>g, <1>q DEF Rejected, TypeOK, Labels
<1>9. CASE MakeTemp(p)
  <2>1. now' \in 1..MaxTime
    BY <1>9, <1>s DEF MakeTemp
  <2>2. [edit[p] EXCEPT !.mtime = now', !.whole = FALSE] \in Texts
    <3>1. edit[p] \in Texts /\ now' \in 0..MaxTime
      BY <2>1 DEF TypeOK
    <3> QED
      BY <3>1, Restamped, Zenon
  <2>3. temp' \in [Procs -> Texts]
    BY <1>9, <2>2 DEF MakeTemp, TypeOK
  <2>4. pc' \in [Procs -> Labels]
    BY <1>9, <1>g DEF MakeTemp, Labels
  <2> QED
    BY <1>9, <2>1, <2>3, <2>4 DEF MakeTemp, TypeOK, Labels
<1>10. CASE MakeTempFails(p)
  BY <1>10, <1>q DEF MakeTempFails, TypeOK, Labels
<1>11. CASE WriteTemp(p)
  <2>1. now' \in 1..MaxTime
    BY <1>11, <1>s DEF WriteTemp
  <2>2. PICK t \in Copies(p) : /\ temp' = [temp EXCEPT ![p] = [t EXCEPT !.mtime = now']]
                               /\ Goto(p, CheckTemp(t))
    BY <1>11 DEF WriteTemp
  <2>3. [t EXCEPT !.mtime = now'] \in Texts /\ CheckTemp(t) \in {"checked", "failed"}
    <3>1. temp[p] \in Texts /\ now' \in 0..MaxTime
      BY <2>1 DEF TypeOK
    <3> QED
      BY <3>1, Copied, Zenon
  <2>4. temp' \in [Procs -> Texts]
    BY <2>2, <2>3 DEF TypeOK
  <2>5. pc' \in [Procs -> Labels]
    BY <1>g, <2>2, <2>3 DEF Labels
  <2> QED
    BY <1>11, <2>1, <2>4, <2>5 DEF WriteTemp, TypeOK, Labels
<1>12. CASE Rename(p)
  BY <1>12, <1>n, <1>s, <1>g DEF Rename, TypeOK, Labels
<1>13. CASE InstallFails(p)
  BY <1>13, <1>n, <1>s, <1>q DEF InstallFails, TypeOK, Labels
<1>14. CASE Cleanup(p)
  BY <1>14, <1>n, <1>s, <1>g DEF Cleanup, TypeOK, Labels
<1>15. CASE poke_daemon(p)
  BY <1>15, <1>s, <1>q DEF poke_daemon, TypeOK, Labels
<1>16. CASE die(p)
  BY <1>16, <1>n, <1>s, <1>q DEF die, TypeOK, Labels
<1>17. CASE Killed(p)
  BY <1>17, <1>n, <1>q DEF Killed, TypeOK, Labels
<1> QED
  BY <1>1, <1>2, <1>3, <1>4, <1>5, <1>6, <1>7, <1>8, <1>9, <1>10, <1>11, <1>12,
     <1>13, <1>14, <1>15, <1>16, <1>17 DEF Step

-----------------------------------------------------------------------------
(* What a step of crontab(1) may do, action by action, in the two places     *)
(* where it matters: the spool directory, and the edit under way.            *)

\* SPOOL_DIR changes only with a new stamp on it: a crontab goes away, or the
\* temporary file of a process that has checked it takes its place.
SpoolEffect(p) ==
    /\ now <= now'
    /\ spoolMtime' \in {spoolMtime, now'}
    /\ \/ tabs' = tabs
       \/ /\ Stamp /\ spoolMtime' = now'
          /\ \/ tabs' = [tabs EXCEPT ![user[p]] = None]
             \/ pc[p] = "checked" /\ tabs' = [tabs EXCEPT ![user[p]] = temp[p]]
    /\ \/ temp' = temp
       \/ temp' = [temp EXCEPT ![p] = None]
       \/ \E t \in Texts : /\ Stamp /\ t.mtime = now'
                           /\ temp' = [temp EXCEPT ![p] = t]
    /\ pc'[p] = "checked" => InOrder(temp'[p])
    /\ \A q \in Procs \ {p} : pc'[q] = pc[q]

\* An edit starts from a copy of the crontab, is saved with a new stamp, and
\* is found unchanged only if the stamp is still the copy's.
EditEffect(p) ==
    /\ now <= now'
    /\ \A q \in Procs \ {p} : /\ pc'[q] = pc[q] /\ mode'[q] = mode[q]
                              /\ edit'[q] = edit[q] /\ base'[q] = base[q]
    /\ \/ pc'[p] = "idle" /\ mode'[p] = "replace" /\ base'[p] = None
       \/ /\ pc'[p] = "edit" /\ mode'[p] = "edit"
          /\ edit'[p] = tabs[user[p]] /\ base'[p] = tabs[user[p]]
       \/ /\ pc[p] = "edit" /\ pc'[p] = "edit"
          /\ Stamp /\ edit'[p].mtime = now'
          /\ mode'[p] = mode[p] /\ base'[p] = base[p]
       \/ /\ pc[p] = "idle" /\ pc'[p] = "install"
          /\ mode'[p] = mode[p] /\ base'[p] = base[p]
       \/ /\ mode'[p] = mode[p] /\ edit'[p] = edit[p] /\ base'[p] = base[p]
          /\ pc'[p] # "idle"
          /\ pc'[p] = "edit" => mode[p] = "edit"
          /\ pc'[p] = "exited" => pc[p] = "edit" /\ edit[p].mtime = base[p].mtime

\* Each of the seventeen steps of crontab(1) has such an effect on the spool.
LEMMA SpoolEffects ==
    ASSUME TypeOK, NEW p \in Procs, Step(p)
    PROVE  SpoolEffect(p)
<1>n. now \in Nat
  BY CrontabConstants DEF TypeOK
<1>s. Stamp => now <= now'
  BY StampRange DEF TypeOK
<1>q. Quit(p) => pc'[p] = "idle" /\ \A q \in Procs \ {p} : pc'[q] = pc[q]
  BY DEF Quit, Goto, TypeOK
<1>g. ASSUME NEW l, Goto(p, l)
      PROVE  pc'[p] = l /\ \A q \in Procs \ {p} : pc'[q] = pc[q]
  BY <1>g DEF Goto, TypeOK
<1> USE DEF spool, SpoolEffect
<1>1. CASE delete_cmd(p)
  BY <1>1, <1>s, <1>g DEF delete_cmd
<1>2. CASE BeginEdit(p)
  BY <1>2, <1>n, <1>g DEF BeginEdit
<1>3. CASE EditorDone(p)
  BY <1>3, <1>n, <1>g DEF EditorDone
<1>4. CASE EditorFails(p)
  BY <1>4, <1>n, <1>q DEF EditorFails
<1>5. CASE RemoveEdit(p)
  BY <1>5, <1>n, <1>q DEF RemoveEdit
<1>6. ASSUME NEW v \in BOOLEAN, Save(p, v)
      PROVE  SpoolEffect(p)
  BY <1>6, <1>s DEF Save
<1>7. ASSUME NEW v \in BOOLEAN, BeginReplace(p, v)
      PROVE  SpoolEffect(p)
  BY <1>7, <1>n, <1>g DEF BeginReplace
<1>8. ASSUME NEW a \in BOOLEAN, Rejected(p, a)
      PROVE  SpoolEffect(p)
  BY <1>8, <1>n, <1>g, <1>q DEF Rejected
<1>9. CASE MakeTemp(p)
  <2>1. edit[p] \in Texts /\ now' \in 0..MaxTime
    BY <1>9, StampRange, CrontabConstants DEF MakeTemp, TypeOK
  <2>2. PICK t \in Texts : /\ t.mtime = now'
                           /\ t = [edit[p] EXCEPT !.mtime = now', !.whole = FALSE]
    BY <2>1, Restamped, Zenon
  <2>3. /\ Stamp /\ spoolMtime' = now' /\ tabs' = tabs
        /\ Goto(p, "temp")
        /\ temp' = [temp EXCEPT ![p] = t]
    BY <1>9, <2>2 DEF MakeTemp
  <2>4. pc'[p] # "checked" /\ \A q \in Procs \ {p} : pc'[q] = pc[q]
    BY <1>g, <2>3
  <2>5. \E u \in Texts : Stamp /\ u.mtime = now' /\ temp' = [temp EXCEPT ![p] = u]
    BY <2>2, <2>3
  <2> QED
    BY <1>s, <2>3, <2>4, <2>5
<1>10. CASE MakeTempFails(p)
  BY <1>10, <1>n, <1>q DEF MakeTempFails
<1>11. CASE WriteTemp(p)
  <2>1. temp[p] \in Texts /\ now' \in 0..MaxTime
    BY <1>11, StampRange, CrontabConstants DEF WriteTemp, TypeOK
  <2>2. PICK c \in Copies(p) : /\ temp' = [temp EXCEPT ![p] = [c EXCEPT !.mtime = now']]
                               /\ Goto(p, CheckTemp(c))
    BY <1>11 DEF WriteTemp
  <2>3. PICK t \in Texts : /\ t = [c EXCEPT !.mtime = now'] /\ t.mtime = now'
                           /\ CheckTemp(c) = "checked" => InOrder(t)
    BY <2>1, Copied, Zenon
  <2>4. temp' = [temp EXCEPT ![p] = t] /\ temp'[p] = t
    BY <2>2, <2>3 DEF TypeOK
  <2>5. pc'[p] = "checked" => InOrder(temp'[p])
    BY <1>g, <2>2, <2>3, <2>4
  <2>6. \A q \in Procs \ {p} : pc'[q] = pc[q]
    BY <1>g, <2>2
  <2>7. Stamp /\ spoolMtime' = spoolMtime /\ tabs' = tabs
    BY <1>11 DEF WriteTemp
  <2> QED
    BY <1>s, <2>3, <2>4, <2>5, <2>6, <2>7
<1>12. CASE Rename(p)
  BY <1>12, <1>s, <1>g DEF Rename
<1>13. CASE InstallFails(p)
  BY <1>13, <1>s, <1>q DEF InstallFails
<1>14. CASE Cleanup(p)
  BY <1>14, <1>s, <1>g DEF Cleanup
<1>15. CASE poke_daemon(p)
  BY <1>15, <1>n, <1>s, <1>q DEF poke_daemon
<1>16. CASE die(p)
  BY <1>16, <1>n, <1>s, <1>q DEF die
<1>17. CASE Killed(p)
  BY <1>17, <1>n, <1>q DEF Killed
<1> QED
  BY <1>1, <1>2, <1>3, <1>4, <1>5, <1>6, <1>7, <1>8, <1>9, <1>10, <1>11, <1>12,
     <1>13, <1>14, <1>15, <1>16, <1>17 DEF Step

\* And such an effect on the editor's files.
LEMMA EditEffects ==
    ASSUME TypeOK, NEW p \in Procs, Step(p)
    PROVE  EditEffect(p)
<1>n. now \in Nat
  BY CrontabConstants DEF TypeOK
<1>s. Stamp => now <= now'
  BY StampRange DEF TypeOK
<1>q. Quit(p) => /\ pc'[p] = "idle" /\ mode'[p] = "replace" /\ base'[p] = None
                 /\ \A q \in Procs \ {p} : /\ pc'[q] = pc[q] /\ mode'[q] = mode[q]
                                           /\ edit'[q] = edit[q] /\ base'[q] = base[q]
  BY DEF Quit, Goto, TypeOK
<1>g. ASSUME NEW l, Goto(p, l)
      PROVE  pc'[p] = l /\ \A q \in Procs \ {p} : pc'[q] = pc[q]
  BY <1>g DEF Goto, TypeOK
<1> USE DEF spool, EditEffect
<1>1. CASE delete_cmd(p)
  BY <1>1, <1>s, <1>g DEF delete_cmd
<1>2. CASE BeginEdit(p)
  BY <1>2, <1>n, <1>g DEF BeginEdit, TypeOK
<1>3. CASE EditorDone(p)
  BY <1>3, <1>n, <1>g DEF EditorDone
<1>4. CASE EditorFails(p)
  BY <1>4, <1>n, <1>q DEF EditorFails
<1>5. CASE RemoveEdit(p)
  BY <1>5, <1>n, <1>q DEF RemoveEdit
<1>6. ASSUME NEW v \in BOOLEAN, Save(p, v)
      PROVE  EditEffect(p)
  <2>1. edit'[p].mtime = now' /\ \A q \in Procs \ {p} : edit'[q] = edit[q]
    BY <1>6 DEF Save, NewText, TypeOK
  <2> QED
    BY <1>6, <1>s, <2>1 DEF Save
<1>7. ASSUME NEW v \in BOOLEAN, BeginReplace(p, v)
      PROVE  EditEffect(p)
  <2>1. \A q \in Procs \ {p} : edit'[q] = edit[q]
    BY <1>7 DEF BeginReplace, TypeOK
  <2> QED
    BY <1>7, <1>n, <1>g, <2>1 DEF BeginReplace
<1>8. ASSUME NEW a \in BOOLEAN, Rejected(p, a)
      PROVE  EditEffect(p)
  <2>1. CASE a
    BY <1>8, <1>n, <1>g, <2>1 DEF Rejected
  <2>2. CASE ~a
    BY <1>8, <1>n, <1>q, <2>2 DEF Rejected
  <2> QED
    BY <2>1, <2>2
<1>9. CASE MakeTemp(p)
  BY <1>9, <1>s, <1>g DEF MakeTemp
<1>10. CASE MakeTempFails(p)
  BY <1>10, <1>n, <1>q DEF MakeTempFails
<1>11. CASE WriteTemp(p)
  <2>1. PICK t \in Copies(p) : Goto(p, CheckTemp(t))
    BY <1>11 DEF WriteTemp
  <2>2. pc'[p] \in {"checked", "failed"} /\ \A q \in Procs \ {p} : pc'[q] = pc[q]
    BY <1>g, <2>1 DEF CheckTemp
  <2> QED
    BY <1>11, <1>s, <2>2 DEF WriteTemp
<1>12. CASE Rename(p)
  BY <1>12, <1>s, <1>g DEF Rename
<1>13. CASE InstallFails(p)
  BY <1>13, <1>s, <1>q DEF InstallFails
<1>14. CASE Cleanup(p)
  BY <1>14, <1>s, <1>g DEF Cleanup
<1>15. CASE poke_daemon(p)
  BY <1>15, <1>n, <1>s, <1>q DEF poke_daemon
<1>16. CASE die(p)
  BY <1>16, <1>n, <1>s, <1>q DEF die
<1>17. CASE Killed(p)
  BY <1>17, <1>n, <1>q DEF Killed
<1> QED
  BY <1>1, <1>2, <1>3, <1>4, <1>5, <1>6, <1>7, <1>8, <1>9, <1>10, <1>11, <1>12,
     <1>13, <1>14, <1>15, <1>16, <1>17 DEF Step

-----------------------------------------------------------------------------
(* What is in the spool is valid.                                            *)

\* What a process is about to rename has been written and checked.
Checked == \A p \in Procs : pc[p] = "checked" => InOrder(temp[p])

InstallInv == TypeOK /\ Checked /\ SpoolAlwaysValid

\* A step of one process keeps the invariant: what is renamed into the spool was
\* checked by the same process, and nobody else writes its temporary file.
LEMMA InstallStep ==
    ASSUME InstallInv, NEW p \in Procs, Step(p)
    PROVE  InstallInv'
<1>t. TypeOK /\ TypeOK'
  BY TypeStep DEF InstallInv
<1>e. SpoolEffect(p)
  BY SpoolEffects DEF InstallInv
<1>1. Checked'
  <2>1. pc'[p] = "checked" => InOrder(temp'[p])
    BY <1>e DEF SpoolEffect
  <2>2. ASSUME NEW q \in Procs \ {p}
        PROVE  pc'[q] = pc[q] /\ temp'[q] = temp[q]
    BY <1>t, <1>e DEF SpoolEffect, TypeOK
  <2> QED
    BY <2>1, <2>2 DEF Checked, InstallInv
<1>2. SpoolAlwaysValid'
  <2>1. CASE tabs' = tabs
    BY <2>1 DEF SpoolAlwaysValid, InstallInv
  <2>2. CASE tabs' = [tabs EXCEPT ![user[p]] = None]
    BY <1>t, <2>2 DEF SpoolAlwaysValid, InstallInv, TypeOK
  <2>3. CASE pc[p] = "checked" /\ tabs' = [tabs EXCEPT ![user[p]] = temp[p]]
    <3>1. InOrder(temp[p])
      BY <2>3 DEF Checked, InstallInv
    <3> QED
      BY <1>t, <2>3, <3>1 DEF SpoolAlwaysValid, InstallInv, TypeOK, InOrder
  <2> QED
    BY <1>e, <2>1, <2>2, <2>3 DEF SpoolEffect
<1> QED
  BY <1>t, <1>1, <1>2 DEF InstallInv

\* So does the administrator, and the daemon, which only reads.
LEMMA InstallNext == InstallInv /\ [SpoolNext]_allVars => InstallInv'
<1> SUFFICES ASSUME InstallInv, [SpoolNext]_allVars
             PROVE  InstallInv'
  OBVIOUS
<1>1. CASE Next
  BY <1>1, InstallStep DEF Next
<1>2. CASE EditSys
  <2>1. now' \in 1..MaxTime /\ version' \in 0..MaxVersion
    BY <1>2, StampRange, CrontabConstants DEF EditSys, InstallInv, TypeOK
  <2> QED
    BY <1>2, <2>1 DEF EditSys, InstallInv, TypeOK, Checked, SpoolAlwaysValid
<1>3. CASE UNCHANGED crontabVars
  BY <1>3 DEF crontabVars, spool, proc, InstallInv, TypeOK, Checked, SpoolAlwaysValid
<1> QED
  BY <1>1, <1>2, <1>3 DEF SpoolNext, RemoveSys, allVars

\* At every moment what crontab(1) keeps is in order, and what is about to be
\* renamed has been checked.
THEOREM InstallInvariant == SpoolSpec => []InstallInv
<1>1. SpoolInit => InstallInv
  BY TypeInit DEF SpoolInit, Init, InstallInv, Checked, SpoolAlwaysValid
<1> QED
  BY <1>1, InstallNext, PTL DEF SpoolSpec

\* The clock, the spool directory and every crontab process keep their types.
THEOREM CrontabTypeCorrect == SpoolSpec => []TypeOK
<1>1. InstallInv => TypeOK
  BY DEF InstallInv
<1> QED
  BY <1>1, InstallInvariant, PTL

\* A crontab in the spool directory is complete and syntactically valid,
\* whatever dies or is interleaved with replace_cmd() and whatever it sees
\* fail; only an I/O error that replace_cmd() does not notice is excepted.
THEOREM SpoolAlwaysValidCorrect == SpoolSpec => []SpoolAlwaysValid
<1>1. InstallInv => SpoolAlwaysValid
  BY DEF InstallInv
<1> QED
  BY <1>1, InstallInvariant, PTL

-----------------------------------------------------------------------------
(* Time stamps tell texts apart, when no two operations share a second.      *)

Databases == [mtime : 0..MaxTime, loaded : [DB!Names -> Texts]]

LoadTypeOK ==
    /\ sys \in Texts
    /\ db \in Databases /\ newdb \in Databases
    /\ lpc \in {"idle", "stat", "load"}
    /\ st \in 0..MaxTime
    /\ todo \subseteq DB!Names

\* Every text some file in the spool, SYSCRONTAB or a database holds.
Held == {None, sys} \cup {tabs[u] : u \in Users} \cup {temp[p] : p \in Procs}
        \cup {db.loaded[n] : n \in DB!Names}
        \cup {newdb.loaded[n] : n \in DB!Names}

\* A text held was stamped in the past, and by its stamp it is known.
Stamped ==
    /\ \A a \in Held : a.mtime <= now /\ (a.mtime = 0 => a = None)
    /\ \A a, b \in Held : a.mtime = b.mtime => a.id = b.id

\* The times kept for comparison are in the past too.
Past ==
    /\ spoolMtime <= now /\ st <= now
    /\ db.mtime <= now /\ newdb.mtime <= now

\* In an edit a stamp equal to the original's means an unchanged copy.
Editing ==
    \A p \in Procs :
        /\ base[p].mtime <= now
        /\ pc[p] = "idle" => mode[p] = "replace"
        /\ pc[p] \in {"edit", "exited"} => mode[p] = "edit"
        /\ mode[p] = "edit" /\ edit[p].mtime = base[p].mtime
               => edit[p].id = base[p].id
        /\ pc[p] = "exited" => edit[p].mtime = base[p].mtime

\* The stamp that a change of n's crontab renews.
StampOf(n) == IF n = Sys THEN sys.mtime ELSE spoolMtime

\* Database d holds what is on disk for n, unless the stamp is younger than d.
Agrees(d, n) ==
    (n \in Users \/ sys # None) /\ StampOf(n) <= d.mtime
        => d.loaded[n].id = DB!OnDisk(n)

\* So it is with the database in use, and with the new one for the names
\* already looked at; for the others nothing is in it yet.
Faithful ==
    /\ \A n \in DB!Names \ MayFail : Agrees(db, n)
    /\ lpc = "load" => /\ \A n \in DB!Names \ (todo \cup MayFail) : Agrees(newdb, n)
                       /\ \A n \in todo : newdb.loaded[n] = None

StampInv == TypeOK /\ LoadTypeOK /\ Stamped /\ Past /\ Editing /\ Faithful

\* A step that brings in no text, or one with a stamp of its own, keeps the
\* stamps telling.
LEMMA StampedStep ==
    ASSUME Stamped, now \in Nat, now' \in Nat, now <= now', Held \subseteq Texts,
           NEW t \in Texts,
           t \in Held \/ (t.mtime = now' /\ now < now'),
           Held' \subseteq Held \cup {t}
    PROVE  Stamped'
<1>1. \A a \in Held : a.mtime \in Nat
  BY CrontabConstants DEF Texts
<1>2. CASE t \in Held
  BY <1>1, <1>2 DEF Stamped
<1>3. CASE t.mtime = now' /\ now < now'
  <2>1. \A a \in Held : a.mtime < t.mtime
    BY <1>1, <1>3 DEF Stamped
  <2>2. \A a \in Held' : a.mtime <= now' /\ (a.mtime = 0 => a = None)
    BY <1>1, <1>3, <2>1 DEF Stamped
  <2>3. ASSUME NEW a \in Held', NEW b \in Held', a.mtime = b.mtime
        PROVE  a.id = b.id
    BY <1>1, <2>1, <2>3 DEF Stamped
  <2> QED
    BY <2>2, <2>3 DEF Stamped
<1> QED
  BY <1>2, <1>3

\* Texts held are texts.
LEMMA HeldTexts ==
    (TypeOK /\ LoadTypeOK => Held \subseteq Texts)
BY NoneFields DEF TypeOK, LoadTypeOK, Databases, Held

\* Before the first operation nothing is installed and nothing loaded.
LEMMA StampInit == SpoolInit => StampInv
<1> SUFFICES ASSUME SpoolInit
             PROVE  StampInv
  OBVIOUS
<1>0. Init /\ DB!LoadInit /\ sys = None
  BY DEF SpoolInit
<1>n. /\ None \in Texts
      /\ None.id = 0 /\ None.mtime = 0
  BY NoneFields
<1>1. TypeOK
  BY <1>0, TypeInit
<1>2. LoadTypeOK
  BY <1>0, <1>n, CrontabConstants
  DEF DB!LoadInit, DB!Empty, LoadTypeOK, Databases
<1>3. Held = {None}
  BY <1>0 DEF Held, Init, DB!LoadInit, DB!Empty
<1>4. Stamped
  BY <1>0, <1>n, <1>3 DEF Stamped, Init
<1>5. Past
  BY <1>0 DEF Past, Init, DB!LoadInit
<1>6. Editing
  BY <1>0, <1>n DEF Editing, Init
<1>7. Faithful
  <2>1. \A n \in DB!Names : n \in Users \/ n = Sys
    BY DEF DB!Names
  <2>2. spoolMtime = 1 /\ db.mtime = 0 /\ lpc = "idle"
    BY <1>0 DEF Init, DB!LoadInit
  <2> QED
    BY <1>0, <2>1, <2>2, SpoolConstants DEF Faithful, Agrees, StampOf
<1> QED
  BY <1>1, <1>2, <1>4, <1>5, <1>6, <1>7 DEF StampInv

\* Whatever crontab(1) does keeps the invariant.
LEMMA StampCrontab ==
    ASSUME SameSecond = FALSE, StampInv, NEW p \in Procs, Step(p),
           UNCHANGED <<sys, loadVars>>
    PROVE  StampInv'
<1>t. TypeOK /\ LoadTypeOK /\ TypeOK'
  BY TypeStep DEF StampInv
<1>u. /\ sys' = sys /\ db' = db /\ lpc' = lpc
      /\ st' = st /\ newdb' = newdb /\ todo' = todo
  BY DEF loadVars
<1>l. LoadTypeOK'
  BY <1>t, <1>u DEF LoadTypeOK
<1>e. SpoolEffect(p) /\ EditEffect(p)
  BY <1>t, SpoolEffects, EditEffects
<1>n. now \in Nat /\ now' \in Nat /\ now <= now' /\ spoolMtime \in Nat
  BY <1>t, <1>e, CrontabConstants DEF TypeOK, SpoolEffect
<1>s. Stamp => now < now'
  BY <1>t, StampRange DEF TypeOK
<1>1. Stamped'
  <2>h. Held \subseteq Texts /\ None \in Held
    BY <1>t, HeldTexts DEF Held
  <2>1. \A u \in Users : tabs'[u] \in Held
    BY <1>t, <1>e, <2>h DEF SpoolEffect, Held, TypeOK
  <2>2. \E t \in Texts : /\ t \in Held \/ (t.mtime = now' /\ now < now')
                         /\ \A q \in Procs : temp'[q] \in Held \cup {t}
    <3>1. CASE temp' = temp
      BY <2>h, <3>1 DEF Held
    <3>2. CASE temp' = [temp EXCEPT ![p] = None]
      BY <1>t, <2>h, <3>2 DEF Held, TypeOK
    <3>3. CASE \E t \in Texts : /\ Stamp /\ t.mtime = now'
                                /\ temp' = [temp EXCEPT ![p] = t]
      BY <1>t, <1>s, <3>3 DEF Held, TypeOK
    <3> QED
      BY <1>e, <3>1, <3>2, <3>3 DEF SpoolEffect
  <2>3. PICK t \in Texts : /\ t \in Held \/ (t.mtime = now' /\ now < now')
                           /\ \A q \in Procs : temp'[q] \in Held \cup {t}
    BY <2>2
  <2>4. Held' \subseteq Held \cup {t}
    BY <1>u, <2>1, <2>3 DEF Held
  <2> QED
    BY <1>n, <2>h, <2>3, <2>4, StampedStep DEF StampInv
<1>2. Past'
  <2>1. spoolMtime' \in {spoolMtime, now'}
    BY <1>e DEF SpoolEffect
  <2>2. db.mtime \in Nat /\ newdb.mtime \in Nat /\ st \in Nat
    BY <1>t, CrontabConstants DEF LoadTypeOK, Databases
  <2> QED
    BY <1>n, <1>u, <2>1, <2>2 DEF Past, StampInv
<1>3. Editing'
  <2>1. \A u \in Users : tabs[u] \in Texts /\ tabs[u].mtime <= now
    BY <1>t DEF TypeOK, StampInv, Stamped, Held
  <2>2. \A q \in Procs : base[q].mtime \in Nat /\ user[q] \in Users
    BY <1>t, CrontabConstants DEF TypeOK, Texts
  <2>3. \A u \in Users : tabs[u].mtime \in Nat
    BY <2>1, CrontabConstants DEF Texts
  <2>4. None.mtime = 0
    BY NoneFields
  <2>5. ASSUME NEW q \in Procs \ {p}
        PROVE  /\ base'[q].mtime <= now'
               /\ pc'[q] = "idle" => mode'[q] = "replace"
               /\ pc'[q] \in {"edit", "exited"} => mode'[q] = "edit"
               /\ mode'[q] = "edit" /\ edit'[q].mtime = base'[q].mtime
                      => edit'[q].id = base'[q].id
               /\ pc'[q] = "exited" => edit'[q].mtime = base'[q].mtime
    BY <1>e, <1>n, <2>2 DEF EditEffect, Editing, StampInv
  <2>6. base'[p].mtime <= now'
    BY <1>e, <1>n, <2>1, <2>2, <2>3, <2>4 DEF EditEffect, Editing, StampInv
  <2>7. /\ pc'[p] = "idle" => mode'[p] = "replace"
        /\ pc'[p] \in {"edit", "exited"} => mode'[p] = "edit"
    BY <1>e DEF EditEffect, Editing, StampInv
  <2>8. mode'[p] = "edit" /\ edit'[p].mtime = base'[p].mtime
            => edit'[p].id = base'[p].id
    <3>1. base[p].mtime <= now
      BY DEF Editing, StampInv
    <3> QED
      BY <1>e, <1>n, <1>s, <2>2, <3>1 DEF EditEffect, Editing, StampInv
  <2>9. pc'[p] = "exited" => edit'[p].mtime = base'[p].mtime
    BY <1>e DEF EditEffect
  <2> QED
    BY <2>5, <2>6, <2>7, <2>8, <2>9 DEF Editing
<1>4. Faithful'
  <2>1. db.mtime \in Nat /\ newdb.mtime \in Nat /\ sys.mtime \in Nat
    BY <1>t, CrontabConstants DEF LoadTypeOK, Databases, Texts
  <2>2. /\ db.mtime <= now /\ newdb.mtime <= now /\ spoolMtime <= now
        /\ spoolMtime' \in {spoolMtime, now'}
    BY <1>e DEF StampInv, Past, SpoolEffect
  <2>3. \A n \in Users : StampOf(n) = spoolMtime /\ StampOf(n)' = spoolMtime'
    BY SpoolConstants DEF StampOf
  <2>4. \A n \in Users : tabs'[n] = tabs[n] => DB!OnDisk(n)' = DB!OnDisk(n)
    BY SpoolConstants DEF DB!OnDisk, DB!Accepts, DB!File
  <2>5. \A n \in Users : tabs'[n] # tabs[n] => now < spoolMtime'
    BY <1>e, <1>s DEF SpoolEffect
  <2>6. StampOf(Sys)' = StampOf(Sys) /\ DB!OnDisk(Sys)' = DB!OnDisk(Sys)
    BY <1>u DEF StampOf, DB!OnDisk, DB!Accepts, DB!File
  <2>7. \A n \in Users : /\ Agrees(db, n) => Agrees(db, n)'
                         /\ Agrees(newdb, n) => Agrees(newdb, n)'
    BY <1>n, <1>u, <2>1, <2>2, <2>3, <2>4, <2>5 DEF Agrees
  <2>8. /\ Agrees(db, Sys) => Agrees(db, Sys)'
        /\ Agrees(newdb, Sys) => Agrees(newdb, Sys)'
    BY <1>u, <2>6 DEF Agrees
  <2> QED
    BY <1>u, <2>7, <2>8 DEF Faithful, StampInv, DB!Names
<1> QED
  BY <1>t, <1>l, <1>1, <1>2, <1>3, <1>4 DEF StampInv

\* The administrator's edit carries a stamp younger than both databases.
LEMMA StampEditSys ==
    ASSUME SameSecond = FALSE, StampInv, EditSys
    PROVE  StampInv'
<1>t. TypeOK /\ LoadTypeOK
  BY DEF StampInv
<1>u. /\ tabs' = tabs /\ spoolMtime' = spoolMtime /\ pc' = pc /\ user' = user
      /\ edit' = edit /\ base' = base /\ mode' = mode /\ temp' = temp
      /\ db' = db /\ lpc' = lpc /\ st' = st /\ newdb' = newdb /\ todo' = todo
      /\ Stamp /\ version' = version + 1 /\ version < MaxVersion
      /\ sys' = NewText(now', TRUE)
  BY DEF EditSys, loadVars
<1>n. now \in Nat /\ now' \in Nat /\ now' \in 1..MaxTime /\ now < now'
  <2>1. now \in 1..MaxTime /\ Stamp
    BY <1>t, <1>u DEF TypeOK
  <2>2. now' \in 1..MaxTime /\ now < now'
    BY <2>1, StampRange
  <2> QED
    BY <2>1, <2>2, CrontabConstants
<1>s. sys' \in Texts /\ sys'.mtime = now' /\ version' \in 0..MaxVersion
  <2>1. now' \in 0..MaxTime /\ version \in 0..MaxVersion
    BY <1>n, <1>t DEF TypeOK
  <2> QED
    BY <1>u, <2>1, NewTextType
<1>1. TypeOK'
  BY <1>t, <1>u, <1>n, <1>s DEF TypeOK
<1>2. LoadTypeOK'
  BY <1>t, <1>u, <1>s DEF LoadTypeOK
<1>3. Stamped'
  <2>1. Held \subseteq Texts
    BY <1>t, HeldTexts
  <2>2. Held' \subseteq Held \cup {sys'}
    BY <1>u DEF Held
  <2> QED
    BY <1>n, <1>s, <2>1, <2>2, StampedStep DEF StampInv
<1>4. Past'
  <2>1. db.mtime \in Nat /\ newdb.mtime \in Nat /\ st \in Nat /\ spoolMtime \in Nat
    BY <1>t, CrontabConstants DEF LoadTypeOK, Databases, TypeOK
  <2> QED
    BY <1>u, <1>n, <2>1 DEF Past, StampInv
<1>5. Editing'
  <2>1. \A p \in Procs : base[p].mtime \in Nat
    BY <1>t, CrontabConstants DEF TypeOK, Texts
  <2>2. \A p \in Procs : base[p].mtime <= now'
    BY <1>n, <2>1 DEF Editing, StampInv
  <2> QED
    BY <1>u, <2>2 DEF Editing, StampInv
<1>6. Faithful'
  <2>1. db.mtime \in Nat /\ newdb.mtime \in Nat
    BY <1>t, CrontabConstants DEF LoadTypeOK, Databases
  <2>2. db.mtime <= now /\ newdb.mtime <= now
    BY DEF StampInv, Past
  <2>3. \A n \in Users : /\ StampOf(n)' = StampOf(n)
                         /\ DB!OnDisk(n)' = DB!OnDisk(n)
    BY <1>u, SpoolConstants DEF StampOf, DB!OnDisk, DB!Accepts, DB!File
  <2>4. StampOf(Sys)' = now'
    BY <1>s DEF StampOf
  <2>5. \A n \in Users : /\ Agrees(db, n) => Agrees(db, n)'
                         /\ Agrees(newdb, n) => Agrees(newdb, n)'
    BY <1>u, <2>3 DEF Agrees
  <2>6. Agrees(db, Sys)' /\ Agrees(newdb, Sys)'
    <3>1. ~(now' <= db.mtime) /\ ~(now' <= newdb.mtime)
      BY <1>n, <2>1, <2>2
    <3> QED
      BY <1>u, <2>4, <3>1 DEF Agrees
  <2> QED
    BY <1>u, <2>5, <2>6 DEF Faithful, StampInv, DB!Names
<1> QED
  BY <1>1, <1>2, <1>3, <1>4, <1>5, <1>6 DEF StampInv

\* Once it is gone, nothing is asked of SYSCRONTAB's entry.
LEMMA StampRemoveSys ==
    ASSUME StampInv, RemoveSys
    PROVE  StampInv'
<1>t. TypeOK /\ LoadTypeOK
  BY DEF StampInv
<1>u. /\ now' = now /\ tabs' = tabs /\ spoolMtime' = spoolMtime
      /\ version' = version /\ pc' = pc /\ user' = user
      /\ edit' = edit /\ base' = base /\ mode' = mode /\ temp' = temp
      /\ db' = db /\ lpc' = lpc /\ st' = st /\ newdb' = newdb /\ todo' = todo
      /\ sys' = None
  BY DEF RemoveSys, loadVars, crontabVars, spool, proc
<1>n. now \in Nat
  BY <1>t, CrontabConstants DEF TypeOK
<1>1. TypeOK'
  BY <1>t, <1>u DEF TypeOK
<1>2. LoadTypeOK'
  BY <1>t, <1>u, NoneFields DEF LoadTypeOK
<1>3. Stamped'
  <2>1. Held \subseteq Texts /\ None \in Held
    BY <1>t, HeldTexts DEF Held
  <2>2. Held' \subseteq Held \cup {None}
    BY <1>u DEF Held
  <2> QED
    BY <1>n, <1>u, <2>1, <2>2, StampedStep DEF StampInv
<1>4. Past' /\ Editing'
  BY <1>u DEF Past, Editing, StampInv
<1>5. Faithful'
  <2>1. \A n \in Users : /\ StampOf(n)' = StampOf(n)
                         /\ DB!OnDisk(n)' = DB!OnDisk(n)
    BY <1>u, SpoolConstants DEF StampOf, DB!OnDisk, DB!Accepts, DB!File
  <2>2. \A n \in Users : /\ Agrees(db, n) => Agrees(db, n)'
                         /\ Agrees(newdb, n) => Agrees(newdb, n)'
    BY <1>u, <2>1 DEF Agrees
  <2>3. Agrees(db, Sys)' /\ Agrees(newdb, Sys)'
    BY <1>u, SpoolConstants DEF Agrees
  <2> QED
    BY <1>u, <2>2, <2>3 DEF Faithful, StampInv, DB!Names
<1> QED
  BY <1>1, <1>2, <1>3, <1>4, <1>5 DEF StampInv

\* Every step of load_database() keeps the invariant.
LEMMA StampLoad ==
    ASSUME StampInv, DB!LoadStep, UNCHANGED <<crontabVars, sys>>
    PROVE  StampInv'
<1>t. TypeOK /\ LoadTypeOK /\ Stamped /\ Past /\ Editing /\ Faithful
  BY DEF StampInv
<1>u. /\ now' = now /\ tabs' = tabs /\ spoolMtime' = spoolMtime
      /\ version' = version /\ pc' = pc /\ user' = user
      /\ edit' = edit /\ base' = base /\ mode' = mode /\ temp' = temp
      /\ sys' = sys
  BY DEF crontabVars, spool, proc
<1>n. now \in Nat /\ spoolMtime \in 0..MaxTime
  BY <1>t, CrontabConstants DEF TypeOK
<1>s. sys \in Texts /\ sys.mtime \in 0..MaxTime /\ sys.mtime <= now
  BY <1>t DEF LoadTypeOK, Texts, Stamped, Held
<1>e. DB!Empty \in [DB!Names -> Texts] /\ \A n \in DB!Names : DB!Empty[n] = None
  BY NoneFields DEF DB!Empty
<1>h. Held \subseteq Texts /\ None \in Held
  BY <1>t, HeldTexts DEF Held
<1>d. \A n \in DB!Names : StampOf(n)' = StampOf(n) /\ DB!OnDisk(n)' = DB!OnDisk(n)
  BY <1>u DEF StampOf, DB!OnDisk, DB!Accepts, DB!File
<1>1. TypeOK' /\ Editing'
  BY <1>t, <1>u DEF TypeOK, Editing
<1>2. ASSUME Held' \subseteq Held
      PROVE  Stamped'
  BY <1>2, <1>n, <1>u, <1>h, <1>t, StampedStep
<1>3. CASE DB!StatSpool
  <2>1. db' = db /\ newdb' = newdb /\ todo' = todo /\ st' = spoolMtime /\ lpc' = "stat"
    BY <1>3 DEF DB!StatSpool
  <2>2. LoadTypeOK'
    BY <1>t, <1>u, <1>n, <2>1 DEF LoadTypeOK
  <2>3. Stamped' /\ Past'
    BY <1>t, <1>u, <2>1 DEF Stamped, Held, Past
  <2>4. Faithful'
    BY <1>t, <1>u, <1>d, <2>1 DEF Faithful, Agrees
  <2> QED
    BY <1>1, <2>2, <2>3, <2>4 DEF StampInv
<1>4. CASE DB!StatSys
  <2> DEFINE m == DB!TMAX(st, sys.mtime)
  <2>m. m \in 0..MaxTime /\ m <= now
    BY <1>t, <1>s, <1>n DEF DB!TMAX, LoadTypeOK, Past
  <2>1. CASE lpc' = "idle" /\ st' = 0 /\ UNCHANGED <<db, newdb, todo>>
    <3>1. LoadTypeOK'
      BY <1>t, <1>u, <2>1, CrontabConstants DEF LoadTypeOK
    <3>2. Stamped' /\ Past'
      BY <1>t, <1>n, <1>u, <2>1 DEF Stamped, Held, Past
    <3>3. Faithful'
      BY <1>t, <1>u, <1>d, <2>1 DEF Faithful, Agrees
    <3> QED
      BY <1>1, <3>1, <3>2, <3>3 DEF StampInv
  <2>2. CASE /\ lpc' = "load" /\ st' = 0 /\ db' = db
             /\ newdb' = [mtime |-> m, loaded |-> DB!Empty]
             /\ todo' = Users \cup (IF sys.mtime # 0 THEN {Sys} ELSE {})
    <3>0. newdb'.mtime = m /\ newdb'.loaded = DB!Empty /\ newdb' \in Databases
      BY <2>2, <2>m, <1>e DEF Databases
    <3>1. LoadTypeOK'
      <4>1. todo' \subseteq DB!Names
        BY <2>2 DEF DB!Names
      <4>2. st' \in 0..MaxTime
        BY <2>2, CrontabConstants
      <4> QED
        BY <1>t, <1>u, <2>2, <3>0, <4>1, <4>2 DEF LoadTypeOK
    <3>2. Stamped'
      <4>1. \A n \in DB!Names : newdb'.loaded[n] = None
        BY <1>e, <3>0
      <4>2. Held' \subseteq Held
        BY <1>u, <2>2, <4>1 DEF Held
      <4> QED
        BY <1>2, <4>2
    <3>3. Past'
      BY <1>t, <1>n, <1>u, <2>2, <2>m, <3>0 DEF Past
    <3>4. Faithful'
      <4>1. \A n \in DB!Names : n \notin todo' => n = Sys /\ sys = None
        BY <1>t, <2>2 DEF DB!Names, Stamped, Held
      <4>2. \A n \in DB!Names : n \notin todo' => Agrees(newdb, n)'
        BY <4>1, <1>u, SpoolConstants DEF Agrees
      <4>3. \A n \in DB!Names \ MayFail : Agrees(db, n)'
        BY <1>t, <1>u, <1>d, <2>2 DEF Faithful, Agrees
      <4>4. \A n \in todo' : newdb'.loaded[n] = None
        BY <1>e, <3>0, <3>1 DEF LoadTypeOK
      <4> QED
        BY <4>2, <4>3, <4>4 DEF Faithful
    <3> QED
      BY <1>1, <3>1, <3>2, <3>3, <3>4 DEF StampInv
  <2> QED
    BY <1>4, <2>1, <2>2 DEF DB!StatSys
<1>5. ASSUME NEW n \in DB!Names, DB!process_crontab(n)
      PROVE  StampInv'
  <2>1. /\ lpc = "load" /\ n \in todo /\ todo' = todo \ {n}
        /\ db' = db /\ lpc' = lpc /\ st' = st
    BY <1>5 DEF DB!process_crontab
  <2>f. DB!File(n) \in Held /\ DB!File(n) \in Texts
    <3>1. n \in Users \/ n = Sys
      BY DEF DB!Names
    <3> QED
      BY <3>1, <1>h, SpoolConstants DEF DB!File, Held
  <2>2. db.loaded[n] \in Held /\ db.loaded[n] \in Texts
    BY <1>h DEF Held
  <2>3. DB!Fresh(n) \in Held /\ DB!Fresh(n).id = DB!File(n).id
    BY <1>t, <2>f, <2>2 DEF DB!Fresh, Stamped
  <2>4. CASE DB!Accepts(n) /\ newdb' = [newdb EXCEPT !.loaded[n] = DB!Fresh(n)]
    <3>0. /\ newdb' \in Databases /\ newdb'.mtime = newdb.mtime
          /\ newdb'.loaded = [newdb.loaded EXCEPT ![n] = DB!Fresh(n)]
      BY <1>t, <1>h, <2>3, <2>4 DEF LoadTypeOK, Databases
    <3>l. newdb.loaded \in [DB!Names -> Texts]
      BY <1>t DEF LoadTypeOK, Databases
    <3>1. LoadTypeOK'
      BY <1>t, <1>u, <2>1, <3>0 DEF LoadTypeOK
    <3>2. Stamped'
      <4>1. \A k \in DB!Names : newdb'.loaded[k] \in Held
        BY <2>3, <3>0, <3>l DEF Held
      <4>2. Held' \subseteq Held
        BY <1>u, <2>1, <4>1 DEF Held
      <4> QED
        BY <1>2, <4>2
    <3>3. Past'
      BY <1>t, <1>u, <2>1, <3>0 DEF Past
    <3>4. Faithful'
      <4>1. \A k \in DB!Names \ MayFail : Agrees(db, k)'
        BY <1>t, <1>u, <1>d, <2>1 DEF Faithful, Agrees
      <4>2. DB!OnDisk(n) = DB!File(n).id
        BY <2>4 DEF DB!OnDisk
      <4>3. newdb'.loaded[n] = DB!Fresh(n)
        BY <3>0, <3>l
      <4>4. Agrees(newdb, n)'
        BY <1>d, <2>3, <4>2, <4>3 DEF Agrees
      <4>5. \A k \in DB!Names \ {n} : newdb'.loaded[k] = newdb.loaded[k]
        BY <3>0, <3>l
      <4>6. \A k \in DB!Names \ (todo \cup MayFail) : Agrees(newdb, k)'
        BY <1>t, <1>u, <1>d, <2>1, <3>0, <4>5 DEF Faithful, Agrees
      <4>7. \A k \in todo' : newdb'.loaded[k] = None
        BY <1>t, <2>1, <4>5 DEF Faithful, LoadTypeOK
      <4> QED
        BY <2>1, <4>1, <4>4, <4>6, <4>7 DEF Faithful
    <3> QED
      BY <1>1, <3>1, <3>2, <3>3, <3>4 DEF StampInv
  <2>5. CASE (~DB!Accepts(n) \/ n \in MayFail) /\ newdb' = newdb
    <3>1. LoadTypeOK'
      BY <1>t, <1>u, <2>1, <2>5 DEF LoadTypeOK
    <3>2. Stamped' /\ Past'
      BY <1>t, <1>u, <2>1, <2>5 DEF Stamped, Held, Past
    <3>3. Faithful'
      <4>1. \A k \in DB!Names \ MayFail : Agrees(db, k)'
        BY <1>t, <1>u, <1>d, <2>1 DEF Faithful, Agrees
      <4>2. ~DB!Accepts(n) => DB!OnDisk(n) = newdb.loaded[n].id
        BY <1>t, <2>1 DEF DB!OnDisk, Faithful
      <4>3. n \in MayFail \/ Agrees(newdb, n)'
        BY <1>d, <2>5, <4>2 DEF Agrees
      <4>4. \A k \in DB!Names \ (todo \cup MayFail) : Agrees(newdb, k)'
        BY <1>t, <1>u, <1>d, <2>1, <2>5 DEF Faithful, Agrees
      <4>5. \A k \in todo' : newdb'.loaded[k] = None
        BY <1>t, <2>1, <2>5 DEF Faithful
      <4> QED
        BY <2>1, <4>1, <4>3, <4>4, <4>5 DEF Faithful
    <3> QED
      BY <1>1, <3>1, <3>2, <3>3 DEF StampInv
  <2> QED
    BY <1>5, <2>4, <2>5 DEF DB!process_crontab
<1>6. CASE DB!Replace
  <2>1. /\ lpc = "load" /\ todo = {} /\ todo' = todo
        /\ db' = newdb /\ lpc' = "idle" /\ st' = st
        /\ newdb' = [mtime |-> 0, loaded |-> DB!Empty]
    BY <1>6 DEF DB!Replace
  <2>0. newdb'.mtime = 0 /\ newdb'.loaded = DB!Empty /\ newdb' \in Databases
    BY <2>1, <1>e, CrontabConstants DEF Databases
  <2>2. LoadTypeOK'
    BY <1>t, <1>u, <2>1, <2>0 DEF LoadTypeOK
  <2>3. Stamped'
    <3>1. \A n \in DB!Names : newdb'.loaded[n] = None
      BY <1>e, <2>0
    <3>2. Held' \subseteq Held
      BY <1>u, <2>1, <3>1 DEF Held
    <3> QED
      BY <1>2, <3>2
  <2>4. Past'
    BY <1>t, <1>n, <1>u, <2>1, <2>0 DEF Past
  <2>5. Faithful'
    <3>1. \A n \in DB!Names \ MayFail : Agrees(newdb, n)
      BY <1>t, <2>1 DEF Faithful
    <3>2. \A n \in DB!Names \ MayFail : Agrees(db, n)'
      BY <3>1, <1>u, <1>d, <2>1 DEF Agrees
    <3> QED
      BY <2>1, <3>2 DEF Faithful
  <2> QED
    BY <1>1, <2>2, <2>3, <2>4, <2>5 DEF StampInv
<1> QED
  BY <1>3, <1>4, <1>5, <1>6 DEF DB!LoadStep

\* Time stamps tell texts apart and every database is as young as it says,
\* when operations do not share a second.
THEOREM StampInvariant ==
    ASSUME SameSecond = FALSE
    PROVE  SpoolSpec => []StampInv
<1>1. StampInv /\ [SpoolNext]_allVars => StampInv'
  <2> SUFFICES ASSUME StampInv, [SpoolNext]_allVars
               PROVE  StampInv'
    OBVIOUS
  <2>1. CASE Next /\ UNCHANGED <<sys, loadVars>>
    BY <2>1, StampCrontab DEF Next
  <2>2. CASE DB!LoadStep /\ UNCHANGED <<crontabVars, sys>>
    BY <2>2, StampLoad
  <2>3. CASE EditSys
    BY <2>3, StampEditSys
  <2>4. CASE RemoveSys
    BY <2>4, StampRemoveSys
  <2>5. CASE UNCHANGED allVars
    BY <2>5 DEF allVars, crontabVars, spool, proc, loadVars, StampInv, TypeOK,
       LoadTypeOK, Stamped, Held, Past, Editing, Faithful, Agrees, StampOf,
       DB!OnDisk, DB!Accepts, DB!File
  <2> QED
    BY <2>1, <2>2, <2>3, <2>4, <2>5 DEF SpoolNext
<1> QED
  BY <1>1, StampInit, PTL DEF SpoolSpec

\* edit_cmd() says "no changes made" only of a copy the editor did not
\* change, for any number of users and crontab processes, if a save does not
\* fall into the second of the crontab's own stamp.
THEOREM EditNeverDroppedCorrect ==
    ASSUME SameSecond = FALSE
    PROVE  SpoolSpec => []EditNeverDropped
<1>1. StampInv => EditNeverDropped
  BY DEF StampInv, Editing, EditNeverDropped
<1> QED
  BY <1>1, StampInvariant, PTL

\* When load_database() returns early nothing on disk has changed, however
\* its system calls interleave with crontab(1) and the administrator, if no
\* two changes fall into one second; run spool_second shows the condition is
\* needed.
THEOREM EarlyReturnSoundCorrect ==
    ASSUME SameSecond = FALSE
    PROVE  SpoolSpec => []EarlyReturnSound
<1>1. StampInv => EarlyReturnSound
  <2> SUFFICES ASSUME StampInv, db.mtime = DB!TMAX(spoolMtime, sys.mtime),
                      NEW n \in DB!Names \ MayFail, n \in Users \/ sys # None
               PROVE  DB!Current(n)
    BY DEF EarlyReturnSound, DB!EarlyReturnSound
  <2>1. spoolMtime \in Nat /\ sys.mtime \in Nat
    BY CrontabConstants DEF StampInv, TypeOK, LoadTypeOK, Texts
  <2>2. StampOf(n) <= db.mtime
    BY <2>1 DEF StampOf, DB!TMAX
  <2> QED
    BY <2>2 DEF StampInv, Faithful, Agrees, DB!Current
<1> QED
  BY <1>1, StampInvariant, PTL

=============================================================================
