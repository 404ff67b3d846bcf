-------------------------- MODULE ScanCacheProofs --------------------------
(***************************************************************************)
(* What ScanCache checks on two files, proved for every set of files,      *)
(* contents, packages and requests, and without the bound on the clock's   *)
(* values mattering.                                                       *)
(***************************************************************************)
EXTENDS ScanCache, TLAPS

(***************************************************************************)
(* The variables keep their types through every system call of a refresh   *)
(* and every write of the other programs.                                  *)
(***************************************************************************)
THEOREM TypeCorrect == Spec => []TypeOK
<1>1. Init => TypeOK
  BY ContentAssumption DEF Init, TypeOK, Version, Nowhere, NoAnswer
<1>2. TypeOK /\ [Next]_vars => TypeOK'
  <2> SUFFICES ASSUME TypeOK, [Next]_vars PROVE TypeOK'
    OBVIOUS
  <2> USE DEF TypeOK, Version, history
  <2>1. ASSUME NEW r \in Requests, Begin(r) PROVE TypeOK'
    BY <2>1, ContentAssumption DEF Begin
  <2>2. ASSUME NEW f \in Files, Visit(f) PROVE TypeOK'
    BY <2>2 DEF Visit
  <2>3. CASE EndWalk
    BY <2>3 DEF EndWalk
  <2>4. ASSUME NEW f \in Files, Keep(f) PROVE TypeOK'
    BY <2>4 DEF Keep
  <2>5. ASSUME NEW f \in Files, Reparse(f) PROVE TypeOK'
    <3>1. listing[f] = NoTime \/ listing[f] \in Nat
      OBVIOUS
    <3>2. Nowhere \in Version /\ disk[f].content \in Contents \cup {NoFile}
      BY DEF Nowhere
    <3> QED
      BY <2>5, <3>1, <3>2 DEF Reparse, Parsed
  <2>6. CASE Merge
    BY <2>6 DEF Merge, Nowhere
  <2>7. ASSUME NEW f \in Files, NEW c \in Contents, NEW tick \in MinTick .. 1, Write(f, c, tick)
        PROVE TypeOK'
    BY <2>7, TimeAssumption DEF Write, Touch
  <2>8. ASSUME NEW f \in Files, Delete(f) PROVE TypeOK'
    BY <2>8, ContentAssumption DEF Delete, Touch, Nowhere
  <2>9. CASE UNCHANGED vars
    BY <2>9 DEF vars
  <2> QED
    BY <2>1, <2>2, <2>3, <2>4, <2>5, <2>6, <2>7, <2>8, <2>9 DEF Next, Refresh, Others
<1> QED
  BY <1>1, <1>2, PTL DEF Spec

-----------------------------------------------------------------------------
LEMMA InvInit == Init => Inv
  BY ContentAssumption, TimeAssumption
  DEF Init, Inv, TimesPast, EntryReadable, DuringIsCurrent, TimeTellsContent, WalkSeen,
      ParseSeen, UntouchedExact, SettledExact, Nowhere, Met, Done

\* Beginning a refresh: nothing is met yet, and the history starts over.
LEMMA BeginInv ==
  ASSUME TypeOK, Inv, NEW r \in Requests, Begin(r)
  PROVE  Inv'
<1> USE TimeAssumption DEF Begin, Met, Done
<1>1. TimesPast'
  BY DEF Inv, TimesPast, TypeOK
<1>2. EntryReadable' /\ DuringIsCurrent' /\ TimeTellsContent'
  BY DEF Inv, EntryReadable, DuringIsCurrent, TimeTellsContent
<1>3. WalkSeen' /\ ParseSeen' /\ UntouchedExact'
  BY DEF WalkSeen, ParseSeen, UntouchedExact
<1>4. SettledExact'
  BY DEF Inv, SettledExact, TypeOK
<1> QED
  BY <1>1, <1>2, <1>3, <1>4 DEF Inv

\* The walk reads a time: if the entry has that time it is the file's content.
LEMMA VisitInv ==
  ASSUME TypeOK, Inv, NEW v \in Files, Visit(v)
  PROVE  Inv'
<1> USE TimeAssumption, ContentAssumption DEF Visit, history, Met, Done
<1>1. TimesPast'
  BY DEF Inv, TimesPast, TypeOK, Version
<1>2. EntryReadable' /\ DuringIsCurrent' /\ TimeTellsContent'
  BY DEF Inv, EntryReadable, DuringIsCurrent, TimeTellsContent
<1>3. WalkSeen'
  <2> SUFFICES ASSUME NEW f \in Files
               PROVE  /\ Met(f)' /\ listing'[f] = NoTime => NoFile \in during'[f]
                      /\ Met(f)' /\ listing'[f] # NoTime /\ ~Stale(f)' => cache'[f].content \in during'[f]
                      /\ phase' = "walk" /\ f \in todo' => listing'[f] = NoTime
    BY DEF WalkSeen
  <2>1. CASE f = v
    BY <2>1 DEF Inv, DuringIsCurrent, TimeTellsContent, Stale, TypeOK, Version
  <2>2. CASE f # v
    BY <2>2 DEF Inv, WalkSeen, Stale, TypeOK
  <2> QED
    BY <2>1, <2>2
<1>4. ParseSeen'
  BY DEF ParseSeen
<1>5. UntouchedExact' /\ SettledExact'
  BY DEF Inv, UntouchedExact, SettledExact, TypeOK, ListedAs
<1> QED
  BY <1>1, <1>2, <1>3, <1>4, <1>5 DEF Inv

LEMMA EndWalkInv ==
  ASSUME TypeOK, Inv, EndWalk
  PROVE  Inv'
<1> USE DEF EndWalk, history, Met, Done
<1>1. TimesPast' /\ EntryReadable' /\ DuringIsCurrent' /\ TimeTellsContent'
  BY DEF Inv, TimesPast, EntryReadable, DuringIsCurrent, TimeTellsContent
<1>2. WalkSeen'
  BY DEF Inv, WalkSeen, Stale
<1>3. ParseSeen'
  BY DEF ParseSeen
<1>4. UntouchedExact' /\ SettledExact'
  BY DEF Inv, UntouchedExact, SettledExact
<1> QED
  BY <1>1, <1>2, <1>3, <1>4 DEF Inv

\* A kept entry has the time the walk saw, hence the content of that time.
LEMMA KeepInv ==
  ASSUME TypeOK, Inv, NEW k \in Files, Keep(k)
  PROVE  Inv'
<1> USE DEF Keep, history, Met, Done
<1>1. TimesPast' /\ EntryReadable' /\ DuringIsCurrent' /\ TimeTellsContent' /\ WalkSeen'
  BY DEF Inv, TimesPast, EntryReadable, DuringIsCurrent, TimeTellsContent, WalkSeen, Stale
<1>2. ParseSeen'
  BY DEF Inv, ParseSeen, Stale
<1>3. SettledExact'
  BY DEF Inv, SettledExact
<1>4. UntouchedExact'
  <2> SUFFICES ASSUME NEW f \in Files \ touched
               PROVE  /\ Met(f)' => listing'[f] = ListedAs(disk[f])
                      /\ Done(f)' /\ listing'[f] # NoTime => cache'[f] = ParsedAs(disk[f])
    BY DEF UntouchedExact
  <2>1. CASE f = k
    <3>1. listing[f] = ListedAs(disk[f]) /\ cache[f].time = listing[f] /\ cache[f].content # NoFile
      BY <2>1 DEF Inv, UntouchedExact, Stale
    <3>2. ASSUME listing[f] # NoTime PROVE cache[f] = ParsedAs(disk[f])
      <4>1. disk[f].content # NoFile /\ disk[f].time = cache[f].time
        BY <3>1, <3>2 DEF ListedAs
      <4>2. cache[f].content = disk[f].content
        BY <3>1, <4>1 DEF Inv, TimeTellsContent
      <4>3. cache[f] = disk[f]
        BY <4>1, <4>2 DEF TypeOK, Version
      <4> QED
        BY <4>3, <3>1 DEF Inv, ParsedAs, EntryReadable
    <3> QED
      BY <3>1, <3>2
  <2>2. CASE f # k
    BY <2>2 DEF Inv, UntouchedExact
  <2> QED
    BY <2>1, <2>2
<1> QED
  BY <1>1, <1>2, <1>3, <1>4 DEF Inv

\* A new entry holds what the file holds now, under the time the walk saw.
LEMMA ReparseInv ==
  ASSUME TypeOK, Inv, NEW k \in Files, Reparse(k)
  PROVE  Inv'
<1> USE ContentAssumption, TimeAssumption DEF Reparse, Parsed, history, Met, Done
<1>0. listing[k] \in Nat
  BY DEF TypeOK
<1>1. TimesPast'
  BY <1>0 DEF Inv, TimesPast, TypeOK, Version, Nowhere
<1>2. EntryReadable' /\ DuringIsCurrent' /\ TimeTellsContent'
  BY DEF Inv, EntryReadable, DuringIsCurrent, TimeTellsContent, TypeOK, Version, Nowhere
<1>3. WalkSeen'
  BY DEF Inv, WalkSeen, DuringIsCurrent, Stale, TypeOK, Version, Nowhere
<1>4. ParseSeen'
  BY DEF Inv, ParseSeen, DuringIsCurrent, TypeOK, Version, Nowhere
<1>5. UntouchedExact'
  <2> SUFFICES ASSUME NEW f \in Files \ touched
               PROVE  /\ Met(f)' => listing'[f] = ListedAs(disk[f])
                      /\ Done(f)' /\ listing'[f] # NoTime => cache'[f] = ParsedAs(disk[f])
    BY DEF UntouchedExact
  <2>1. listing[f] = ListedAs(disk[f])
    BY DEF Inv, UntouchedExact
  <2>2. CASE f = k
    BY <1>0, <2>1, <2>2 DEF ListedAs, ParsedAs, TypeOK, Version
  <2>3. CASE f # k
    BY <2>1, <2>3 DEF Inv, UntouchedExact, TypeOK
  <2> QED
    BY <2>2, <2>3
<1>6. SettledExact'
  <2> SUFFICES ASSUME NEW f \in settled
               PROVE  /\ cache'[f] = ParsedAs(disk[f])
                      /\ Met(f)' => listing'[f] = ListedAs(disk[f])
    BY DEF SettledExact
  <2>1. listing[f] = ListedAs(disk[f]) /\ cache[f] = ParsedAs(disk[f]) /\ f \in Files
    BY DEF Inv, SettledExact, TypeOK
  <2> QED
    BY <1>0, <2>1 DEF ListedAs, ParsedAs, TypeOK, Version
<1> QED
  BY <1>1, <1>2, <1>3, <1>4, <1>5, <1>6 DEF Inv

\* Merging drops the entries of files that were not met.
LEMMA MergeInv ==
  ASSUME TypeOK, Inv, Merge
  PROVE  Inv'
<1>1. /\ phase = "parse" /\ todo = {} /\ phase' = "idle"
      /\ cache' = [f \in Files |-> IF listing[f] = NoTime THEN Nowhere ELSE cache[f]]
      /\ settled' = Files \ touched
      /\ UNCHANGED <<disk, now, todo, listing, during, touched>>
  BY DEF Merge
<1> USE <1>1, ContentAssumption, TimeAssumption DEF Met, Done
<1>2. TimesPast'
  BY DEF Inv, TimesPast, TypeOK, Version, Nowhere
<1>3. EntryReadable' /\ DuringIsCurrent' /\ TimeTellsContent'
  BY DEF Inv, EntryReadable, DuringIsCurrent, TimeTellsContent, Nowhere
<1>4. WalkSeen' /\ ParseSeen' /\ UntouchedExact'
  BY DEF WalkSeen, ParseSeen, UntouchedExact
<1>5. SettledExact'
  BY DEF Inv, UntouchedExact, SettledExact, ListedAs, ParsedAs, TypeOK, Version
<1> QED
  BY <1>2, <1>3, <1>4, <1>5 DEF Inv

\* A write takes a time nobody has seen: this is where the clock matters.
LEMMA WriteInv ==
  ASSUME TypeOK, Inv, MinTick = 1, NEW k \in Files, NEW c \in Contents,
         NEW tick \in MinTick .. 1, Write(k, c, tick)
  PROVE  Inv'
<1>1. /\ now' = now + 1
      /\ disk' = [disk EXCEPT ![k] = [time |-> now + 1, content |-> c]]
      /\ during' = [during EXCEPT ![k] = @ \cup {c}]
      /\ touched' = touched \cup {k} /\ settled' = settled \ {k}
      /\ UNCHANGED <<cache, phase, todo, listing>>
  BY DEF Write, Touch
<1> USE <1>1, TimeAssumption DEF Met, Done, Stale
<1>2. TimesPast' /\ EntryReadable'
  BY DEF Inv, TimesPast, EntryReadable, TypeOK, Version
<1>3. TimeTellsContent'
  BY DEF Inv, TimesPast, TimeTellsContent, TypeOK, Version
<1>4. DuringIsCurrent' /\ WalkSeen' /\ ParseSeen'
  BY DEF Inv, DuringIsCurrent, WalkSeen, ParseSeen, TypeOK
<1>5. UntouchedExact' /\ SettledExact'
  BY DEF Inv, UntouchedExact, SettledExact, TypeOK
<1> QED
  BY <1>2, <1>3, <1>4, <1>5 DEF Inv

LEMMA DeleteInv ==
  ASSUME TypeOK, Inv, NEW k \in Files, Delete(k)
  PROVE  Inv'
<1>1. /\ now' = now
      /\ disk' = [disk EXCEPT ![k] = Nowhere]
      /\ during' = [during EXCEPT ![k] = @ \cup {NoFile}]
      /\ touched' = touched \cup {k} /\ settled' = settled \ {k}
      /\ UNCHANGED <<cache, phase, todo, listing>>
  BY DEF Delete, Touch, Nowhere
<1> USE <1>1, TimeAssumption DEF Met, Done, Stale, Nowhere
<1>2. TimesPast' /\ EntryReadable' /\ TimeTellsContent'
  BY DEF Inv, TimesPast, EntryReadable, TimeTellsContent, TypeOK, Version
<1>3. DuringIsCurrent' /\ WalkSeen' /\ ParseSeen'
  BY DEF Inv, DuringIsCurrent, WalkSeen, ParseSeen, TypeOK
<1>4. UntouchedExact' /\ SettledExact'
  BY DEF Inv, UntouchedExact, SettledExact, TypeOK
<1> QED
  BY <1>2, <1>3, <1>4 DEF Inv

LEMMA StutterInv ==
  ASSUME Inv, UNCHANGED vars
  PROVE  Inv'
  BY DEF vars, Inv, TimesPast, EntryReadable, DuringIsCurrent, TimeTellsContent, WalkSeen,
         ParseSeen, UntouchedExact, SettledExact, Met, Done, Stale

LEMMA InvNext == TypeOK /\ Inv /\ MinTick = 1 /\ [Next]_vars => Inv'
  BY BeginInv, VisitInv, EndWalkInv, KeepInv, ReparseInv, MergeInv, WriteInv, DeleteInv,
     StutterInv DEF Next, Refresh, Others

THEOREM InvAlways == ASSUME MinTick = 1 PROVE Spec => []Inv
<1>1. Init => Inv
  BY InvInit
<1>2. TypeOK /\ Inv /\ [Next]_vars => Inv'
  BY InvNext
<1> QED
  BY <1>1, <1>2, TypeCorrect, PTL DEF Spec

-----------------------------------------------------------------------------
(***************************************************************************)
(* Comparing modification times is enough: an entry with the file's time   *)
(* was made from the file's content (refresh_sibling_cache reads the time  *)
(* before the content, and no two writes share a time).                    *)
(***************************************************************************)
THEOREM TimeIsEnough == ASSUME MinTick = 1 PROVE Spec => []TimeTellsContent
<1>1. Inv => TimeTellsContent
  BY DEF Inv
<1> QED
  BY <1>1, InvAlways, PTL

(***************************************************************************)
(* A refresh never hands out a content from before it began, whatever the  *)
(* other programs write while it runs.                                     *)
(***************************************************************************)
THEOREM RefreshIsFresh == ASSUME MinTick = 1 PROVE Spec => []NoOlderThanRefresh
<1>1. TypeOK /\ Inv => NoOlderThanRefresh
  BY TimeAssumption
  DEF Inv, WalkSeen, ParseSeen, NoOlderThanRefresh, Met, Done, Stale, TypeOK
<1> QED
  BY <1>1, InvAlways, TypeCorrect, PTL

(***************************************************************************)
(* Files nobody wrote since before the last whole refresh are not read     *)
(* again.                                                                  *)
(***************************************************************************)
THEOREM NoRework == ASSUME MinTick = 1 PROVE Spec => SettledNotReread
<1>1. TypeOK /\ Inv /\ [Next]_vars =>
        [\A f \in settled : disk[f].content \notin Unreadable => ~Reparse(f)]_vars
  <2> SUFFICES ASSUME TypeOK, Inv, NEW f \in settled, disk[f].content \notin Unreadable,
                      Reparse(f)
               PROVE  FALSE
    OBVIOUS
  <2>1. listing[f] \in Nat /\ Stale(f) /\ Met(f)
    BY DEF TypeOK, Reparse, Parsed, Met
  <2>2. cache[f] = ParsedAs(disk[f]) /\ listing[f] = ListedAs(disk[f])
    BY <2>1 DEF Inv, SettledExact
  <2> QED
    BY <2>1, <2>2, TimeAssumption DEF ListedAs, ParsedAs, Stale
<1> QED
  BY <1>1, InvAlways, TypeCorrect, PTL DEF Spec, SettledNotReread
(***************************************************************************)
(* A refresh nobody disturbs answers with exactly what is on the disk.     *)
(***************************************************************************)
LEMMA QuietMerge ==
  ASSUME TypeOK, Inv, Merge
  PROVE  QuietAnswerExact'
<1> DEFINE kept == [f \in Files |-> IF listing[f] = NoTime THEN Nowhere ELSE cache[f]]
           merged == {f \in Files : kept[f].content # NoFile /\ Visible(kept[f].content)}
           there == {f \in Files : /\ disk[f].content \notin Unreadable \cup {NoFile}
                                   /\ Visible(disk[f].content)}
<1> SUFFICES ASSUME settled' = Files
             PROVE  /\ \A f \in Files :
                          answer'.files[f] = IF f \in there /\ ~LeftOut(f)
                                             THEN disk[f].content ELSE NoFile
                    /\ \A n \in Names :
                          (answer'.sigs[n] = NoFile) <=>
                              \A f \in there : n \notin FuncsOf[disk[f].content]
  <2>1. disk' = disk /\ request' = request
    BY DEF Merge
  <2>2. /\ \A c : Visible(c)' <=> Visible(c)
        /\ \A f : LeftOut(f)' <=> LeftOut(f)
    BY <2>1 DEF Visible, LeftOut
  <2> QED
    BY <2>1, <2>2 DEF QuietAnswerExact
<1>1. cache' = kept /\ disk' = disk
  BY DEF Merge
<1>2. \A f \in Files : kept[f] = ParsedAs(disk[f])
  BY <1>1, MergeInv DEF Inv, SettledExact, ParsedAs
<1>3. \A f \in Files : /\ f \in merged <=> f \in there
                       /\ f \in there => kept[f].content = disk[f].content
  BY <1>2, ContentAssumption DEF ParsedAs, Nowhere
<1>4. PICK sigs \in [Names -> Files \cup {NoFile}] :
         /\ \A n \in Names :
               IF {f \in merged : n \in FuncsOf[kept[f].content]} = {} THEN sigs[n] = NoFile
               ELSE sigs[n] \in {f \in merged : n \in FuncsOf[kept[f].content]}
         /\ answer' = [files |-> [f \in Files |-> IF f \in merged /\ ~LeftOut(f)
                                                 THEN kept[f].content ELSE NoFile],
                       sigs |-> sigs]
  BY DEF Merge
<1>5. \A f \in Files : answer'.files[f] = IF f \in there /\ ~LeftOut(f)
                                          THEN disk[f].content ELSE NoFile
  BY <1>3, <1>4
<1>6. \A n \in Names :
         (answer'.sigs[n] = NoFile) <=> \A f \in there : n \notin FuncsOf[disk[f].content]
  <2> SUFFICES ASSUME NEW n \in Names
               PROVE  (sigs[n] = NoFile) <=> \A f \in there : n \notin FuncsOf[disk[f].content]
    BY <1>4
  <2>1. {f \in merged : n \in FuncsOf[kept[f].content]} =
        {f \in there : n \in FuncsOf[disk[f].content]}
    BY <1>3
  <2> HIDE DEF merged, kept
  <2> QED
    BY <1>4, <2>1, ContentAssumption
<1> QED
  BY <1>5, <1>6

THEOREM QuietIsExact == ASSUME MinTick = 1 PROVE Spec => []QuietAnswerExact
<1>1. Init => QuietAnswerExact
  <2> SUFFICES ASSUME Init, settled = Files PROVE QuietAnswerExact
    BY DEF QuietAnswerExact
  <2>1. Files = {} /\ \A n \in Names : answer.sigs[n] = NoFile
    BY DEF Init, NoAnswer
  <2> QED
    BY <2>1 DEF QuietAnswerExact
<1>2. TypeOK /\ Inv /\ QuietAnswerExact /\ [Next]_vars => QuietAnswerExact'
  <2> SUFFICES ASSUME TypeOK, Inv, QuietAnswerExact, [Next]_vars
               PROVE  QuietAnswerExact'
    OBVIOUS
  <2>1. ASSUME NEW r \in Requests, Begin(r) PROVE QuietAnswerExact'
    BY <2>1 DEF Begin, QuietAnswerExact
  <2>2. ASSUME NEW f \in Files, Visit(f) \/ Keep(f) \/ Reparse(f) PROVE QuietAnswerExact'
    BY <2>2 DEF Visit, Keep, Reparse, Parsed, QuietAnswerExact
  <2>3. CASE EndWalk
    BY <2>3 DEF EndWalk, QuietAnswerExact
  <2>4. CASE Merge
    BY <2>4, QuietMerge
  <2>5. ASSUME NEW f \in Files, NEW version, Touch(f, version) PROVE QuietAnswerExact'
    BY <2>5 DEF Touch, QuietAnswerExact
  <2>6. CASE UNCHANGED vars
    BY <2>6 DEF vars, QuietAnswerExact, Visible, LeftOut
  <2> QED
    BY <2>1, <2>2, <2>3, <2>4, <2>5, <2>6 DEF Next, Refresh, Others, Write, Delete
<1> QED
  BY <1>1, <1>2, InvAlways, TypeCorrect, PTL DEF Spec
=============================================================================
