---------------------------- MODULE ReleaseProof ----------------------------
(***************************************************************************)
(* Proofs about Release, for any commands, designs, gates and boards.  The *)
(* argument: as long as a command is undisturbed, what it concluded in     *)
(* turn (the commit, git's answer, each gate's status, the closure) is     *)
(* still true of the tree together.  A writer is undisturbed by the other  *)
(* writers because of the hold; release-check is not, and its result       *)
(* counts for an undisturbed run only.                                     *)
(***************************************************************************)
EXTENDS Release, TLAPS

Labels == {"idle", "installing", "validating", "writing", "status", "tracked",
           "checking", "verdict", "ready", "blocked"}

\* TypeOK, with the domains that it leaves to the reader.
TypeInv == TypeOK /\ status \in [Proc -> Seq(Status)]

Writing == {"installing", "validating", "writing"}

\* Commands that write hold the tree, so no other command changes it.
Held(p) ==
  /\ pc[p] \in Writing => holder = p /\ quiet[p] # "written"
  /\ pc[p] = "idle" => quiet[p] = "quiet"
  /\ pc[p] = "installing" => view[p] # Absent
  /\ pc[p] \in {"writing", "verdict", "ready"} => closure[p] # Absent
  /\ pc[p] \in {"idle", "status", "tracked"} => status[p] = <<>> /\ view[p] = Absent

HeldInv == \A p \in Proc : Held(p)

\* What .gitignore hides was never committed.
HeadInv == \A part \in board.ignored : head[part] = Absent

\* What the gate may do now, if it is asked at all.
Could(gate, does) == gate \in board.opted => does \in Acts(gate, tree.design)

\* The status a gate has is one that it could have now.
TrueStatus(p, i) ==
  \E does \in Does : Could(Gates[i], does) /\ status[p][i] = Judged(Gates[i], does)

Seen(p) == /\ view[p] \in {Absent, tree.design}
           /\ \A i \in DOMAIN status[p] : TrueStatus(p, i)

Judgement(p) == Len(status[p]) = Len(Gates) /\ closure[p] \in {tree.design, Unavailable}

\* What an undisturbed command has found out holds of the tree as it is.
Knows(p) ==
  /\ pc[p] \in {"validating", "writing", "checking", "verdict", "ready"} => Seen(p)
  /\ pc[p] \in {"writing", "verdict", "ready"} => Judgement(p)
  /\ pc[p] \in {"status", "tracked", "checking", "verdict", "ready"} => named[p] = head
  /\ pc[p] \in {"tracked", "checking", "verdict", "ready"} /\ clean[p] =>
       \A part \in Part : ~ Differs(part)
  /\ pc[p] \in {"checking", "verdict", "ready"} /\ clean[p] => Tracked
  /\ pc[p] = "ready" => clean[p] /\ GatesPass(p) /\ VerdictAccepts(p)

QuietInv == \A p \in Proc : quiet[p] = "quiet" => Knows(p)

IInv == TypeInv /\ HeldInv /\ HeadInv /\ QuietInv

-----------------------------------------------------------------------------
(* The gates.                                                              *)

LEMMA JudgedIsStatus ==
  ASSUME NEW gate, NEW does PROVE Judged(gate, does) \in Status
BY Zenon DEF Judged, Status

\* A gate that is not opted in to is not asked.
LEMMA NotOptedIn ==
  ASSUME NEW gate, gate \notin board.opted, NEW does
  PROVE  Judged(gate, does) = "NOT_APPLICABLE"
BY DEF Judged

\* Only what passes, does not apply, or fails and is advisory does not block.
LEMMA JudgedGood ==
  ASSUME NEW gate, NEW does, gate \in board.opted, Judged(gate, does) \notin Blocking
  PROVE  \/ does = "passes" \/ does = "not_applicable"
         \/ does = "fails" /\ gate \in board.advisory
<1>1. CASE does = "passes" \/ does = "not_applicable"
  BY <1>1
<1>2. CASE does = "fails" /\ gate \notin board.advisory
  <2>1. Judged(gate, does) = "FAIL"
    BY <1>2 DEF Judged
  <2> QED BY <2>1 DEF Blocking
<1>3. CASE does # "passes" /\ does # "not_applicable" /\ does # "fails"
  <2>1. Judged(gate, does) = "ERROR"
    BY <1>3 DEF Judged
  <2> QED BY <2>1 DEF Blocking
<1> QED BY <1>1, <1>2, <1>3

\* What satisfies the release profile was asked, and passed or is advisory.
LEMMA JudgedPassed ==
  ASSUME NEW gate, NEW does, Judged(gate, does) \in {"PASS", "ADVISORY"}
  PROVE  /\ gate \in board.opted
         /\ does = "passes" \/ (does = "fails" /\ gate \in board.advisory)
<1>1. gate \in board.opted
  BY NotOptedIn
<1>2. does # "not_applicable"
  <2> SUFFICES ASSUME does = "not_applicable" PROVE FALSE
    OBVIOUS
  <2>1. Judged(gate, does) = "NOT_APPLICABLE"
    BY <1>1 DEF Judged
  <2> QED BY <2>1
<1> QED BY <1>1, <1>2, JudgedGood DEF Blocking

\* What the gates on the artifacts demand.
LEMMA ProvenanceActs ==
  ASSUME NEW d, NEW does \in Acts(Provenance, d)
  PROVE  /\ does # "not_applicable"
         /\ does = "passes" =>
              tree.artifacts # Absent /\ tree.artifacts.closure = tree.design
<1>1. Acts(Provenance, d) = {ProvenanceAct, "raises"}
  BY DEF Acts, Parity, Provenance
<1> QED BY <1>1 DEF ProvenanceAct

LEMMA ParityActs ==
  ASSUME NEW d, NEW does \in Acts(Parity, d)
  PROVE  /\ does # "not_applicable"
         /\ does = "passes" =>
              tree.artifacts # Absent /\ <<tree.artifacts.from, d>> \in board.alike
<1>1. Acts(Parity, d) = {ParityAct(d), "raises"}
  BY DEF Acts, Parity, Provenance
<1> QED BY <1>1 DEF ParityAct

\* The other gates look at the design alone.
LEMMA OtherActs ==
  ASSUME NEW d, NEW gate, gate \notin {Provenance, Parity}, NEW does \in Acts(gate, d)
  PROVE  does = board.outcome[gate][d]
<1>1. Acts(gate, d) = {board.outcome[gate][d]}
  BY Zenon DEF Acts
<1> QED BY <1>1

-----------------------------------------------------------------------------

LEMMA InitIInv == Init => IInv
<1> SUFFICES ASSUME Init PROVE IInv
  OBVIOUS
<1>1. tree \in Content /\ tree.design # Absent
  BY ReleaseAssumption DEF Init, Content, Artifacts
<1>2. head \in Content
  BY DEF Init, Nowhere, Content
<1>3. <<>> \in Seq(Status) /\ Len(<<>>) <= Len(Gates) /\ Len(<<>>) = 0
  BY ReleaseAssumption
<1>4. TypeInv
  BY <1>1, <1>2, <1>3, ReleaseAssumption DEF Init, TypeInv, TypeOK, Nowhere, Content
<1>5. HeldInv /\ QuietInv
  BY DEF Init, HeldInv, Held, QuietInv, Knows, Writing
<1>6. HeadInv
  BY ReleaseAssumption DEF Init, HeadInv, Nowhere, Board, Part
<1> QED BY <1>4, <1>5, <1>6 DEF IInv

-----------------------------------------------------------------------------
(* Steps that leave design, artifacts, report and HEAD alone.              *)

\* What gates say of the same tree is the same.
LEMMA SameTree ==
  ASSUME UNCHANGED <<board, tree, head>>,
         NEW q, status'[q] = status[q], view'[q] = view[q], closure'[q] = closure[q]
  PROVE  /\ Seen(q)' <=> Seen(q)
         /\ Judgement(q)' <=> Judgement(q)
         /\ \A part : Differs(part)' <=> Differs(part)
         /\ Tracked' <=> Tracked
         /\ GatesPass(q)' <=> GatesPass(q)
         /\ VerdictAccepts(q)' <=> VerdictAccepts(q)
<1>1. \A i : TrueStatus(q, i)' <=> TrueStatus(q, i)
  BY DEF TrueStatus, Could, Judged, Acts, ProvenanceAct, ParityAct
<1>2. Seen(q)' <=> Seen(q)
  BY <1>1 DEF Seen
<1>3. Judgement(q)' <=> Judgement(q)
  BY DEF Judgement
<1>4. \A part : Differs(part)' <=> Differs(part)
  BY DEF Differs
<1>5. Tracked' <=> Tracked
  BY DEF Tracked
<1>6. GatesPass(q)' <=> GatesPass(q)
  BY DEF GatesPass, Accepted
<1>7. VerdictAccepts(q)' <=> VerdictAccepts(q)
  BY DEF VerdictAccepts
<1> QED BY <1>2, <1>3, <1>4, <1>5, <1>6, <1>7

\* A step of p that does not touch the tree leaves the others as they are.
LEMMA LocalKeeps ==
  ASSUME IInv, NEW p \in Proc, TypeInv',
         UNCHANGED <<board, tree, head>>,
         \A q \in Proc \ {p} :
           /\ pc'[q] = pc[q] /\ named'[q] = named[q] /\ clean'[q] = clean[q]
           /\ view'[q] = view[q] /\ status'[q] = status[q] /\ closure'[q] = closure[q]
           /\ quiet'[q] = quiet[q]
           /\ holder = q => holder' = q,
         Held(p)', quiet'[p] = "quiet" => Knows(p)'
  PROVE  IInv'
<1>1. HeadInv'
  BY DEF IInv, HeadInv
<1>2. ASSUME NEW q \in Proc \ {p} PROVE Held(q)'
  BY <1>2 DEF IInv, HeldInv, Held
<1>3. ASSUME NEW q \in Proc \ {p}, quiet'[q] = "quiet" PROVE Knows(q)'
  <2>1. Knows(q) /\ pc'[q] = pc[q] /\ named'[q] = named[q] /\ clean'[q] = clean[q]
    BY <1>3 DEF IInv, QuietInv
  <2>2. status'[q] = status[q] /\ view'[q] = view[q] /\ closure'[q] = closure[q]
    BY <1>3
  <2> QED BY <2>1, <2>2, SameTree DEF Knows
<1> QED BY <1>1, <1>2, <1>3 DEF IInv, HeldInv, QuietInv

LEMMA Types ==
  ASSUME IInv
  PROVE  /\ pc \in [Proc -> Labels] /\ named \in [Proc -> Content]
         /\ clean \in [Proc -> BOOLEAN] /\ view \in [Proc -> Design \cup {Absent}]
         /\ status \in [Proc -> Seq(Status)]
         /\ \A p \in Proc : Len(status[p]) <= Len(Gates)
         /\ closure \in [Proc -> Design \cup {Absent, Unavailable}]
         /\ quiet \in [Proc -> {"quiet", "written", "edited"}]
         /\ holder \in Proc \cup {NoProc}
         /\ board \in Boards /\ tree \in Content /\ tree.design # Absent
         /\ head \in Content /\ changes \in 0 .. MaxChange
BY DEF IInv, TypeInv, TypeOK, Labels

LEMMA TypesAfter ==
  ASSUME pc' \in [Proc -> Labels], named' \in [Proc -> Content],
         clean' \in [Proc -> BOOLEAN], view' \in [Proc -> Design \cup {Absent}],
         status' \in [Proc -> Seq(Status)],
         \A p \in Proc : Len(status'[p]) <= Len(Gates),
         closure' \in [Proc -> Design \cup {Absent, Unavailable}],
         quiet' \in [Proc -> {"quiet", "written", "edited"}],
         holder' \in Proc \cup {NoProc},
         board' \in Boards, tree' \in Content, tree'.design # Absent,
         head' \in Content, changes' \in 0 .. MaxChange
  PROVE  TypeInv'
BY DEF TypeInv, TypeOK, Labels

\* What is left of a command that is over.
LEMMA FinishIs ==
  ASSUME IInv, NEW p \in Proc, Finish(p)
  PROVE  /\ pc' \in [Proc -> Labels] /\ named' \in [Proc -> Content]
         /\ clean' \in [Proc -> BOOLEAN] /\ view' \in [Proc -> Design \cup {Absent}]
         /\ status' \in [Proc -> Seq(Status)]
         /\ \A q \in Proc : Len(status'[q]) <= Len(Gates)
         /\ closure' \in [Proc -> Design \cup {Absent, Unavailable}]
         /\ holder' \in Proc \cup {NoProc}
         /\ pc'[p] = "idle" /\ status'[p] = <<>> /\ view'[p] = Absent
         /\ \A q \in Proc \ {p} :
              /\ pc'[q] = pc[q] /\ named'[q] = named[q] /\ clean'[q] = clean[q]
              /\ view'[q] = view[q] /\ status'[q] = status[q] /\ closure'[q] = closure[q]
              /\ holder = q => holder' = q
<1>1. /\ pc' = [pc EXCEPT ![p] = "idle"] /\ named' = [named EXCEPT ![p] = Nowhere]
      /\ clean' = [clean EXCEPT ![p] = TRUE] /\ view' = [view EXCEPT ![p] = Absent]
      /\ status' = [status EXCEPT ![p] = <<>>] /\ closure' = [closure EXCEPT ![p] = Absent]
      /\ holder' = IF holder = p THEN NoProc ELSE holder
  BY DEF Finish, Goto
<1>2. Nowhere \in Content /\ "idle" \in Labels
  BY DEF Nowhere, Content, Labels
<1>3. <<>> \in Seq(Status) /\ Len(<<>>) = 0 /\ Len(Gates) \in Nat
  BY ReleaseAssumption
<1>4. pc' \in [Proc -> Labels] /\ named' \in [Proc -> Content]
      /\ clean' \in [Proc -> BOOLEAN] /\ view' \in [Proc -> Design \cup {Absent}]
  BY <1>1, <1>2, Types
<1>5. status' \in [Proc -> Seq(Status)]
      /\ closure' \in [Proc -> Design \cup {Absent, Unavailable}]
  BY <1>1, <1>3, Types
<1>6. \A q \in Proc : Len(status'[q]) <= Len(Gates)
  BY <1>1, <1>3, Types
<1>7. holder' \in Proc \cup {NoProc}
  BY <1>1, Types
<1>8. pc'[p] = "idle" /\ status'[p] = <<>> /\ view'[p] = Absent
  BY <1>1, Types
<1>9. ASSUME NEW q \in Proc \ {p}
      PROVE  /\ pc'[q] = pc[q] /\ named'[q] = named[q] /\ clean'[q] = clean[q]
             /\ view'[q] = view[q] /\ status'[q] = status[q] /\ closure'[q] = closure[q]
             /\ holder = q => holder' = q
  BY <1>1, Types
<1> QED BY <1>4, <1>5, <1>6, <1>7, <1>8, <1>9

-----------------------------------------------------------------------------
(* Steps that change the tree or HEAD.                                     *)

\* Whoever the designer or git disturbs knows nothing any more.
LEMMA UserKeeps ==
  ASSUME IInv, UserChange, UNCHANGED <<holder, runVars>>, HeadInv',
         tree' \in Content, tree'.design # Absent, head' \in Content
  PROVE  IInv'
<1>1. UNCHANGED <<pc, named, clean, view, status, closure, holder, board>>
  BY DEF runVars, UserChange, Change
<1>2. quiet' = [p \in Proc |-> IF pc[p] = "idle" THEN "quiet" ELSE "edited"]
  BY DEF UserChange
<1>3. quiet' \in [Proc -> {"quiet", "written", "edited"}]
  BY <1>2
<1>4. changes' \in 0 .. MaxChange
  BY Types, ReleaseAssumption DEF UserChange, Change
<1>5. TypeInv'
  BY <1>1, <1>3, <1>4, Types, TypesAfter
<1>6. HeldInv'
  BY <1>1, <1>2 DEF IInv, HeldInv, Held, Writing
<1>7. QuietInv'
  BY <1>1, <1>2 DEF QuietInv, Knows
<1> QED BY <1>5, <1>6, <1>7 DEF IInv

LEMMA EditKeeps == IInv /\ Edit => IInv'
<1> SUFFICES ASSUME IInv, Edit PROVE IInv'
  OBVIOUS
<1>1. UserChange /\ UNCHANGED <<head, holder, runVars>>
  BY DEF Edit
<1>2. PICK d \in Design : tree' = [tree EXCEPT !.design = d]
  BY DEF Edit
<1>3. tree' \in Content /\ tree'.design # Absent /\ head' \in Content
  BY <1>1, <1>2, Types, ReleaseAssumption DEF Content
<1>4. HeadInv'
  BY <1>1 DEF IInv, HeadInv, UserChange, Change
<1> QED BY <1>1, <1>3, <1>4, UserKeeps

LEMMA CommitKeeps == IInv /\ Commit => IInv'
<1> SUFFICES ASSUME IInv, Commit PROVE IInv'
  OBVIOUS
<1>1. UserChange /\ UNCHANGED <<tree, holder, runVars>>
  BY DEF Commit
<1>2. head' = [part \in Part |-> IF part \in board.ignored THEN Absent ELSE tree[part]]
  BY DEF Commit
<1>3. head' \in Content
  <2>1. head' = [design    |-> IF "design" \in board.ignored THEN Absent ELSE tree.design,
                 artifacts |-> IF "artifacts" \in board.ignored THEN Absent
                                 ELSE tree.artifacts,
                 report    |-> IF "report" \in board.ignored THEN Absent ELSE tree.report]
    BY <1>2 DEF Part
  <2>2. tree.design \in Design \cup {Absent} /\ tree.artifacts \in Artifacts \cup {Absent}
        /\ tree.report \in Report \cup {Absent}
    BY Types DEF Content
  <2> QED BY <2>1, <2>2 DEF Content
<1>4. HeadInv'
  <2>1. board' = board /\ board.ignored \subseteq Part
    BY <1>1, Types, ReleaseAssumption DEF UserChange, Change, Board
  <2> QED BY <1>2, <2>1 DEF HeadInv
<1> QED BY <1>1, <1>3, <1>4, UserKeeps, Types

LEMMA StrayKeeps == IInv /\ StrayReport => IInv'
<1> SUFFICES ASSUME IInv, StrayReport PROVE IInv'
  OBVIOUS
<1> DEFINE stray == [closure |-> tree.design, accepted |-> TRUE, partial |-> TRUE]
<1>1. UserChange /\ UNCHANGED <<head, holder, runVars>>
      /\ tree' = [tree EXCEPT !.report = stray]
  BY DEF StrayReport
<1>2. stray \in Report
  BY Types DEF Report, Content
<1> HIDE DEF stray
<1>3. tree' \in Content /\ tree'.design # Absent /\ head' \in Content
  BY <1>1, <1>2, Types DEF Content
<1>4. HeadInv'
  BY <1>1 DEF IInv, HeadInv, UserChange, Change
<1> QED BY <1>1, <1>3, <1>4, UserKeeps

\* A command that writes is the only one that is writing.
LEMMA WriteKeeps ==
  ASSUME IInv, NEW p \in Proc, pc[p] \in Writing, Write(p), Finish(p), head' = head,
         tree' \in Content, tree'.design # Absent
  PROVE  IInv'
<1>1. quiet' = [q \in Proc |-> IF q = p \/ pc[q] = "idle" THEN "quiet"
                                ELSE IF quiet[q] = "quiet" THEN "written" ELSE quiet[q]]
      /\ board' = board
  BY DEF Write, Change
<1>2. quiet' \in [Proc -> {"quiet", "written", "edited"}]
  BY <1>1, Types
<1>3. changes' \in 0 .. MaxChange
  BY Types, ReleaseAssumption DEF Write, Change
<1>4. TypeInv'
  <2>1. board' \in Boards /\ head' \in Content
    BY <1>1, Types
  <2> QED BY <1>2, <1>3, <2>1, FinishIs, TypesAfter
<1>5. HeadInv'
  BY <1>1 DEF IInv, HeadInv
<1>6. holder = p
  BY DEF IInv, HeldInv, Held
<1>7. Held(p)'
  BY <1>1, FinishIs DEF Held, Writing
<1>8. ASSUME NEW q \in Proc \ {p} PROVE Held(q)'
  <2>1. pc[q] \notin Writing
    BY <1>6 DEF IInv, HeldInv, Held
  <2>2. /\ pc'[q] = pc[q] /\ status'[q] = status[q] /\ view'[q] = view[q]
        /\ closure'[q] = closure[q]
    BY FinishIs
  <2> QED BY <1>1, <2>1, <2>2 DEF IInv, HeldInv, Held
<1>9. ASSUME NEW q \in Proc, quiet'[q] = "quiet" PROVE Knows(q)'
  <2>1. pc'[q] = "idle"
    BY <1>1, <1>9, FinishIs, Types
  <2> QED BY <2>1 DEF Knows
<1> QED BY <1>4, <1>5, <1>7, <1>8, <1>9 DEF IInv, HeldInv, QuietInv

LEMMA InstalledKeeps == ASSUME IInv, NEW p \in Proc, Installed(p) PROVE IInv'
<1> DEFINE artifacts == [from |-> view[p], closure |-> tree.design]
<1>1. pc[p] \in Writing /\ Write(p) /\ Finish(p) /\ head' = head
      /\ tree' = [tree EXCEPT !.artifacts = artifacts]
  BY DEF Installed, Writing
<1>2. artifacts \in Artifacts
  <2>1. view[p] \in Design
    BY Types DEF IInv, HeldInv, Held, Installed
  <2>2. tree.design \in Design
    BY Types DEF Content
  <2> QED BY <2>1, <2>2 DEF Artifacts
<1> HIDE DEF artifacts
<1>3. tree' \in Content /\ tree'.design # Absent
  BY <1>1, <1>2, Types DEF Content
<1> QED BY <1>1, <1>3, WriteKeeps

LEMMA ReportKeeps == ASSUME IInv, NEW p \in Proc, WriteReport(p) PROVE IInv'
<1> DEFINE report == [closure |-> closure[p], accepted |-> Accepted(p), partial |-> FALSE]
<1>1. pc[p] \in Writing /\ Write(p) /\ Finish(p) /\ head' = head
      /\ tree' = [tree EXCEPT !.report = report]
  BY DEF WriteReport, Writing
<1>2. report \in Report
  <2>1. closure[p] \in Design \cup {Unavailable}
    BY Types DEF IInv, HeldInv, Held, WriteReport
  <2>2. Accepted(p) \in BOOLEAN
    BY DEF Accepted
  <2> QED BY <2>1, <2>2 DEF Report
<1> HIDE DEF report
<1>3. tree' \in Content /\ tree'.design # Absent
  BY <1>1, <1>2, Types DEF Content
<1> QED BY <1>1, <1>3, WriteKeeps

-----------------------------------------------------------------------------
(* Steps of one command that read.                                         *)

\* What such a step leaves alone.
Reads(p) ==
  /\ UNCHANGED <<board, tree, head, changes, quiet>>
  /\ \A q \in Proc \ {p} :
       /\ pc'[q] = pc[q] /\ named'[q] = named[q] /\ clean'[q] = clean[q]
       /\ view'[q] = view[q] /\ status'[q] = status[q] /\ closure'[q] = closure[q]
       /\ holder = q => holder' = q

LEMMA ReadKeeps ==
  ASSUME IInv, NEW p \in Proc, Reads(p),
         pc' \in [Proc -> Labels], named' \in [Proc -> Content],
         clean' \in [Proc -> BOOLEAN], view' \in [Proc -> Design \cup {Absent}],
         status' \in [Proc -> Seq(Status)],
         \A q \in Proc : Len(status'[q]) <= Len(Gates),
         closure' \in [Proc -> Design \cup {Absent, Unavailable}],
         holder' \in Proc \cup {NoProc},
         Held(p)', quiet[p] = "quiet" => Knows(p)'
  PROVE  IInv'
<1>1. TypeInv'
  BY Types, TypesAfter DEF Reads
<1> QED BY <1>1, LocalKeeps DEF Reads

LEMMA LeaveKeeps == ASSUME IInv, NEW p \in Proc, Leave(p) PROVE IInv'
<1>1. Finish(p) /\ quiet' = [quiet EXCEPT ![p] = "quiet"]
      /\ UNCHANGED <<board, tree, head, changes>>
  BY DEF Leave
<1>2. quiet' \in [Proc -> {"quiet", "written", "edited"}] /\ quiet'[p] = "quiet"
      /\ \A q \in Proc \ {p} : quiet'[q] = quiet[q]
  BY <1>1, Types
<1>3. TypeInv'
  BY <1>1, <1>2, FinishIs, Types, TypesAfter
<1>4. pc'[p] = "idle" /\ status'[p] = <<>> /\ view'[p] = Absent
  BY <1>1, FinishIs
<1>5. Held(p)' /\ Knows(p)'
  BY <1>2, <1>4 DEF Held, Knows, Writing
<1> QED BY <1>1, <1>2, <1>3, <1>5, FinishIs, LocalKeeps

LEMMA StartBuildKeeps == ASSUME IInv, NEW p \in Proc, StartBuild(p) PROVE IInv'
<1>1. /\ pc[p] = "idle" /\ holder = NoProc /\ holder' = p
      /\ view' = [view EXCEPT ![p] = tree.design]
      /\ pc' = [pc EXCEPT ![p] = "installing"]
      /\ UNCHANGED <<board, tree, head, changes, named, clean, status, closure, quiet>>
  BY DEF StartBuild, Goto
<1>2. tree.design \in Design /\ "installing" \in Labels
  BY Types DEF Content, Labels
<1>3. Reads(p)
  BY <1>1, Types, ReleaseAssumption DEF Reads
<1>4. pc' \in [Proc -> Labels] /\ view' \in [Proc -> Design \cup {Absent}]
  BY <1>1, <1>2, Types
<1>5. pc'[p] = "installing" /\ view'[p] = tree.design /\ quiet[p] = "quiet"
  BY <1>1, Types DEF IInv, HeldInv, Held
<1>6. Held(p)' /\ Knows(p)'
  BY <1>1, <1>5, Types DEF Held, Knows, Writing
<1> QED BY <1>1, <1>3, <1>4, <1>6, Types, ReadKeeps

LEMMA StartValidateKeeps == ASSUME IInv, NEW p \in Proc, StartValidate(p) PROVE IInv'
<1>1. /\ pc[p] = "idle" /\ holder = NoProc /\ holder' = p
      /\ pc' = [pc EXCEPT ![p] = "validating"]
      /\ UNCHANGED <<board, tree, head, changes, named, clean, view, status, closure, quiet>>
  BY DEF StartValidate, Goto
<1>2. Reads(p)
  BY <1>1, Types, ReleaseAssumption DEF Reads
<1>3. pc' \in [Proc -> Labels] /\ pc'[p] = "validating"
  BY <1>1, Types DEF Labels
<1>4. quiet[p] = "quiet" /\ status[p] = <<>> /\ view[p] = Absent
  BY <1>1 DEF IInv, HeldInv, Held
<1>5. Held(p)'
  BY <1>1, <1>3, <1>4 DEF Held, Writing
<1>6. Knows(p)'
  BY <1>1, <1>3, <1>4 DEF Knows, Seen
<1> QED BY <1>1, <1>2, <1>3, <1>5, <1>6, Types, ReadKeeps

LEMMA StartCheckKeeps == ASSUME IInv, NEW p \in Proc, StartCheck(p) PROVE IInv'
<1>1. /\ pc[p] = "idle" /\ named' = [named EXCEPT ![p] = head]
      /\ pc' = [pc EXCEPT ![p] = "status"]
      /\ UNCHANGED <<board, tree, head, changes, holder, clean, view, status, closure, quiet>>
  BY DEF StartCheck, Goto
<1>2. Reads(p)
  BY <1>1, Types DEF Reads
<1>3. pc' \in [Proc -> Labels] /\ pc'[p] = "status"
      /\ named' \in [Proc -> Content] /\ named'[p] = head
  BY <1>1, Types DEF Labels
<1>4. status[p] = <<>> /\ view[p] = Absent
  BY <1>1 DEF IInv, HeldInv, Held
<1>5. Held(p)' /\ Knows(p)'
  BY <1>1, <1>3, <1>4 DEF Held, Knows, Writing
<1> QED BY <1>1, <1>2, <1>3, <1>5, Types, ReadKeeps

LEMMA StatusKeeps == ASSUME IInv, NEW p \in Proc, GitStatus(p) PROVE IInv'
<1>1. /\ pc[p] = "status" /\ pc' = [pc EXCEPT ![p] = "tracked"]
      /\ clean' = [clean EXCEPT ![p] = @ /\ ~ \E part \in Part : Differs(part)]
      /\ UNCHANGED <<board, tree, head, changes, holder, named, view, status, closure, quiet>>
  BY DEF GitStatus, Goto
<1>2. Reads(p)
  BY <1>1, Types DEF Reads
<1>3. pc' \in [Proc -> Labels] /\ pc'[p] = "tracked" /\ clean' \in [Proc -> BOOLEAN]
      /\ (clean'[p] => \A part \in Part : ~ Differs(part))
  BY <1>1, Types DEF Labels
<1>4. status[p] = <<>> /\ view[p] = Absent /\ (quiet[p] = "quiet" => named[p] = head)
  BY <1>1 DEF IInv, HeldInv, Held, QuietInv, Knows
<1>5. Held(p)'
  BY <1>1, <1>3, <1>4 DEF Held, Writing
<1>6. \A part : Differs(part)' <=> Differs(part)
  BY <1>1 DEF Differs
<1>7. quiet[p] = "quiet" => Knows(p)'
  BY <1>1, <1>3, <1>4, <1>6 DEF Knows
<1> QED BY <1>1, <1>2, <1>3, <1>5, <1>7, Types, ReadKeeps

LEMMA LsFilesKeeps == ASSUME IInv, NEW p \in Proc, LsFiles(p) PROVE IInv'
<1>1. /\ pc[p] = "tracked" /\ pc' = [pc EXCEPT ![p] = "checking"]
      /\ clean' = [clean EXCEPT ![p] = @ /\ Tracked]
      /\ UNCHANGED <<board, tree, head, changes, holder, named, view, status, closure, quiet>>
  BY DEF LsFiles, Goto
<1>2. Reads(p)
  BY <1>1, Types DEF Reads
<1>3. pc' \in [Proc -> Labels] /\ pc'[p] = "checking" /\ clean' \in [Proc -> BOOLEAN]
      /\ (clean'[p] => clean[p] /\ Tracked)
  BY <1>1, Types DEF Labels, Tracked
<1>4. status[p] = <<>> /\ view[p] = Absent
  BY <1>1 DEF IInv, HeldInv, Held
<1>5. quiet[p] = "quiet" =>
        named[p] = head /\ (clean[p] => \A part \in Part : ~ Differs(part))
  BY <1>1 DEF IInv, QuietInv, Knows
<1>6. Held(p)'
  BY <1>1, <1>3, <1>4 DEF Held, Writing
<1>7. (\A part : Differs(part)' <=> Differs(part)) /\ (Tracked' <=> Tracked)
  BY <1>1 DEF Differs, Tracked
<1>8. Seen(p)'
  BY <1>1, <1>4 DEF Seen
<1>9. quiet[p] = "quiet" => Knows(p)'
  BY <1>1, <1>3, <1>5, <1>7, <1>8 DEF Knows
<1> QED BY <1>1, <1>2, <1>3, <1>6, <1>9, Types, ReadKeeps

LEMMA ConcludeKeeps == ASSUME IInv, NEW p \in Proc, Conclude(p) PROVE IInv'
<1> DEFINE good == clean[p] /\ GatesPass(p) /\ VerdictAccepts(p)
<1>1. /\ pc[p] = "verdict" /\ pc' = [pc EXCEPT ![p] = IF good THEN "ready" ELSE "blocked"]
      /\ UNCHANGED <<board, tree, head, changes, holder, named, clean, view, status, closure,
                     quiet>>
  BY DEF Conclude, Goto
<1> HIDE DEF good
<1>2. Reads(p)
  BY <1>1, Types DEF Reads
<1>3. pc' \in [Proc -> Labels] /\ pc'[p] \in {"ready", "blocked"}
      /\ (pc'[p] = "ready" => good)
  BY <1>1, Types DEF Labels
<1>4. closure[p] # Absent
  BY <1>1 DEF IInv, HeldInv, Held
<1>5. Held(p)'
  BY <1>1, <1>3, <1>4 DEF Held, Writing
<1>6. quiet[p] = "quiet" => Knows(p)'
  <2>1. pc'[p] = "ready" => clean[p] /\ GatesPass(p) /\ VerdictAccepts(p)
    BY <1>3 DEF good
  <2>2. quiet[p] = "quiet" =>
          /\ Seen(p) /\ Judgement(p) /\ named[p] = head
          /\ clean[p] => (\A part \in Part : ~ Differs(part)) /\ Tracked
    BY <1>1 DEF IInv, QuietInv, Knows
  <2> QED BY <1>1, <1>3, <2>1, <2>2, SameTree DEF Knows
<1> QED BY <1>1, <1>2, <1>3, <1>5, <1>6, Types, ReadKeeps

\* A gate that looks at the design looks at the one in the tree, as long as
\* nobody changes it.
LEMMA GateKeeps == ASSUME IInv, NEW p \in Proc, RunGate(p) PROVE IInv'
<1> DEFINE n == Len(status[p]) + 1
           gate == Gates[n]
           loaded == IF gate \in board.opted /\ gate # Provenance /\ view[p] = Absent
                       THEN tree.design ELSE view[p]
<1>0. PICK does \in Does :
        /\ gate \in board.opted => does \in Acts(gate, loaded)
        /\ status' = [status EXCEPT ![p] = Append(@, Judged(gate, does))]
  BY DEF RunGate
<1> DEFINE said == Judged(gate, does)
<1>1. /\ pc[p] \in {"validating", "checking"} /\ Len(status[p]) < Len(Gates)
      /\ view' = [view EXCEPT ![p] = loaded]
      /\ status' = [status EXCEPT ![p] = Append(@, said)]
      /\ UNCHANGED <<board, tree, head, changes, holder, pc, named, clean, closure, quiet>>
  BY <1>0 DEF RunGate, Judging
<1>2. said \in Status
  BY JudgedIsStatus
<1>3. loaded \in Design \cup {Absent}
  BY Types DEF Content
<1>4. status[p] \in Seq(Status) /\ Len(status[p]) \in Nat /\ Len(Gates) \in Nat
  BY Types, ReleaseAssumption
<1>5. quiet[p] = "quiet" => Seen(p)
  BY <1>1 DEF IInv, QuietInv, Knows
<1>6. quiet[p] = "quiet" =>
        loaded \in {Absent, tree.design} /\ Could(gate, does)
  <2> SUFFICES ASSUME quiet[p] = "quiet"
               PROVE  loaded \in {Absent, tree.design} /\ Could(gate, does)
    OBVIOUS
  <2>1. view[p] \in {Absent, tree.design}
    BY <1>5 DEF Seen
  <2>2. CASE gate \notin board.opted
    BY <2>1, <2>2 DEF Could
  <2>3. CASE gate = Provenance
    <3>1. Acts(Provenance, loaded) = Acts(Provenance, tree.design)
      BY DEF Acts, Provenance, Parity
    <3> QED BY <1>0, <2>1, <2>3, <3>1 DEF Could
  <2>4. CASE gate \in board.opted /\ gate # Provenance
    BY <1>0, <2>1, <2>4 DEF Could
  <2> QED BY <2>2, <2>3, <2>4
<1> HIDE DEF loaded, said, gate
<1>7. view' \in [Proc -> Design \cup {Absent}] /\ view'[p] = loaded
  BY <1>1, <1>3, Types
<1>8. /\ status' \in [Proc -> Seq(Status)] /\ status'[p] = Append(status[p], said)
      /\ Len(status'[p]) = n /\ DOMAIN status'[p] = DOMAIN status[p] \cup {n}
      /\ \A i \in DOMAIN status[p] : status'[p][i] = status[p][i]
      /\ status'[p][n] = said
  BY <1>1, <1>2, <1>4, Types
<1>9. \A q \in Proc : Len(status'[q]) <= Len(Gates)
  BY <1>1, <1>4, <1>8, Types
<1>10. Reads(p)
  BY <1>1, Types DEF Reads
<1>11. Held(p)'
  BY <1>1 DEF IInv, HeldInv, Held, Writing
<1>12. quiet[p] = "quiet" => Knows(p)'
  <2> SUFFICES ASSUME quiet[p] = "quiet" PROVE Knows(p)'
    OBVIOUS
  <2>1. ASSUME NEW i \in DOMAIN status[p] PROVE TrueStatus(p, i)'
    <3>1. TrueStatus(p, i)
      BY <1>5, <2>1 DEF Seen
    <3>2. board' = board /\ tree' = tree /\ status'[p][i] = status[p][i]
      BY <1>1, <1>8
    <3> QED BY <3>1, <3>2 DEF TrueStatus, Could, Judged, Acts, ProvenanceAct, ParityAct
  <2>2. PICK k : k = n
    OBVIOUS
  <2>3. TrueStatus(p, k)'
    <3>1. status'[p][k] = Judged(Gates[k], does) /\ Could(Gates[k], does)
      BY <1>6, <1>8, <2>2 DEF gate, said
    <3>2. board' = board /\ tree' = tree
      BY <1>1
    <3>3. Could(Gates[k], does)' /\ Judged(Gates[k], does)' = Judged(Gates[k], does)
      BY <3>1, <3>2 DEF Could, Judged, Acts, ProvenanceAct, ParityAct
    <3> QED BY <3>1, <3>3 DEF TrueStatus
  <2>4. Seen(p)'
    <3>1. DOMAIN status'[p] = DOMAIN status[p] \cup {k}
      BY <1>8, <2>2
    <3>2. \A i \in DOMAIN status'[p] : TrueStatus(p, i)'
      BY <2>1, <2>3, <3>1
    <3>3. view'[p] \in {Absent, tree'.design}
      BY <1>1, <1>6, <1>7
    <3> QED BY <3>2, <3>3 DEF Seen
  <2>5. (\A part : Differs(part)' <=> Differs(part)) /\ (Tracked' <=> Tracked)
    BY <1>1 DEF Differs, Tracked
  <2>6. pc'[p] = pc[p] /\ named'[p] = named[p] /\ clean'[p] = clean[p] /\ head' = head
    BY <1>1
  <2> QED BY <1>1, <2>4, <2>5, <2>6 DEF IInv, QuietInv, Knows
<1> QED BY <1>1, <1>7, <1>8, <1>9, <1>10, <1>11, <1>12, Types, ReadKeeps

LEMMA DocumentKeeps == ASSUME IInv, NEW p \in Proc, Document(p) PROVE IInv'
<1>1. PICK c \in {tree.design, Unavailable} : closure' = [closure EXCEPT ![p] = c]
  BY DEF Document
<1>2. /\ pc[p] \in {"validating", "checking"} /\ Len(status[p]) = Len(Gates)
      /\ pc' = [pc EXCEPT ![p] = IF pc[p] = "validating" THEN "writing" ELSE "verdict"]
      /\ UNCHANGED <<board, tree, head, changes, holder, named, clean, view, status, quiet>>
  BY DEF Document, Judging, Goto
<1>3. c \in Design \cup {Unavailable}
  BY Types DEF Content
<1>4. c # Absent
  BY Types, ReleaseAssumption DEF Content
<1>5. closure' \in [Proc -> Design \cup {Absent, Unavailable}] /\ closure'[p] = c
  BY <1>1, <1>3, Types
<1>6. /\ pc' \in [Proc -> Labels] /\ pc'[p] \in {"writing", "verdict"}
      /\ pc[p] = "checking" => pc'[p] = "verdict"
      /\ pc[p] = "validating" => pc'[p] = "writing"
  BY <1>2, Types DEF Labels
<1>7. Reads(p)
  BY <1>1, <1>2, Types DEF Reads
<1>8. Held(p)'
  BY <1>2, <1>4, <1>5, <1>6 DEF IInv, HeldInv, Held, Writing
<1>9. quiet[p] = "quiet" => Knows(p)'
  <2> SUFFICES ASSUME quiet[p] = "quiet" PROVE Knows(p)'
    OBVIOUS
  <2>1. \A i : TrueStatus(p, i)' <=> TrueStatus(p, i)
    BY <1>2 DEF TrueStatus, Could, Judged, Acts, ProvenanceAct, ParityAct
  <2>2. Seen(p)'
    BY <1>2, <2>1 DEF IInv, QuietInv, Knows, Seen
  <2>3. Judgement(p)'
    BY <1>1, <1>2, <1>5 DEF Judgement
  <2>4. (\A part : Differs(part)' <=> Differs(part)) /\ (Tracked' <=> Tracked)
    BY <1>2 DEF Differs, Tracked
  <2> QED BY <1>2, <1>6, <2>2, <2>3, <2>4 DEF IInv, QuietInv, Knows
<1> QED BY <1>2, <1>5, <1>6, <1>7, <1>8, <1>9, Types, ReadKeeps

-----------------------------------------------------------------------------

LEMMA NextIInv == IInv /\ [Next]_vars => IInv'
<1> SUFFICES ASSUME IInv, [Next]_vars PROVE IInv'
  OBVIOUS
<1>1. CASE UNCHANGED vars
  <2>1. UNCHANGED <<board, tree, head, changes, holder, pc, named, clean, view, status,
                    closure, quiet>>
    BY <1>1 DEF vars, runVars
  <2>2. TypeInv'
    BY <2>1, Types, TypesAfter
  <2>3. HeldInv' /\ HeadInv'
    BY <2>1 DEF IInv, HeldInv, Held, HeadInv
  <2>4. ASSUME NEW q \in Proc, quiet'[q] = "quiet" PROVE Knows(q)'
    <3>1. Knows(q)
      BY <2>1, <2>4 DEF IInv, QuietInv
    <3> QED BY <2>1, <3>1, SameTree DEF Knows
  <2> QED BY <2>2, <2>3, <2>4 DEF IInv, QuietInv
<1>2. CASE Edit \/ Commit \/ StrayReport
  BY <1>2, EditKeeps, CommitKeeps, StrayKeeps
<1>3. CASE \E p \in Writer : StartBuild(p) \/ Installed(p) \/ StartValidate(p) \/ WriteReport(p)
  BY <1>3, StartBuildKeeps, InstalledKeeps, StartValidateKeeps, ReportKeeps DEF Proc
<1>4. CASE \E p \in Checker : StartCheck(p) \/ GitStatus(p) \/ LsFiles(p) \/ Conclude(p)
  BY <1>4, StartCheckKeeps, StatusKeeps, LsFilesKeeps, ConcludeKeeps DEF Proc
<1>5. CASE \E p \in Proc : RunGate(p) \/ Document(p) \/ Leave(p)
  BY <1>5, GateKeeps, DocumentKeeps, LeaveKeeps
<1> QED BY <1>1, <1>2, <1>3, <1>4, <1>5 DEF Next

\* The variables keep their types and the facts above hold throughout.
THEOREM Invariance == Spec => []IInv
<1> QED BY InitIInv, NextIInv, PTL DEF Spec

\* Tree, HEAD and what each command has read keep their types (run.py).
THEOREM Typing == Spec => []TypeOK
<1>1. IInv => TypeOK
  BY DEF IInv, TypeInv
<1> QED BY <1>1, Invariance, PTL

-----------------------------------------------------------------------------
(* What statuses that do not block say.                                    *)

\* Gates that ran on the tree's design and do not block are good for it, and
\* for the artifacts beside it as far as they look at them.
LEMMA AcceptedIsGood ==
  ASSUME IInv, NEW p \in Proc, Seen(p), Len(status[p]) = Len(Gates), Accepted(p)
  PROVE  /\ \A gate \in DOMAIN board.outcome : Good(gate, tree.design)
         /\ BoundTo(tree.artifacts, tree.design)
<1>1. ASSUME NEW gate \in Gate, gate \in board.opted
      PROVE  \E does \in Acts(gate, tree.design) :
               \/ does = "passes" \/ does = "not_applicable"
               \/ does = "fails" /\ gate \in board.advisory
  <2>1. PICK i \in DOMAIN Gates : Gates[i] = gate
    BY DEF Gate, ToSet
  <2>2. i \in DOMAIN status[p]
    BY <2>1, Types, ReleaseAssumption
  <2>3. PICK does \in Does : Could(gate, does) /\ status[p][i] = Judged(gate, does)
    BY <2>1, <2>2 DEF Seen, TrueStatus
  <2>4. does \in Acts(gate, tree.design) /\ Judged(gate, does) \notin Blocking
    BY <1>1, <2>2, <2>3 DEF Accepted, Could
  <2> QED BY <1>1, <2>4, JudgedGood
<1>2. DOMAIN board.outcome = Gate \ {Provenance, Parity} /\ board.opted \subseteq Gate
  BY Types, ReleaseAssumption DEF Board
<1>3. ASSUME NEW gate \in DOMAIN board.outcome PROVE Good(gate, tree.design)
  <2>1. CASE gate \notin board.opted
    BY <2>1 DEF Good
  <2>2. CASE gate \in board.opted
    <3>1. PICK does \in Acts(gate, tree.design) :
            \/ does = "passes" \/ does = "not_applicable"
            \/ does = "fails" /\ gate \in board.advisory
      BY <1>1, <1>2, <2>2
    <3>2. does = board.outcome[gate][tree.design]
      BY <1>2, <3>1, OtherActs
    <3> QED BY <2>2, <3>1, <3>2 DEF Good, Passed
  <2> QED BY <2>1, <2>2
<1>4. BoundTo(tree.artifacts, tree.design)
  <2>1. ASSUME Provenance \in board.opted \ board.advisory
        PROVE  tree.artifacts # Absent /\ tree.artifacts.closure = tree.design
    <3>1. PICK does \in Acts(Provenance, tree.design) :
            does = "passes" \/ does = "not_applicable"
      BY <1>1, <1>2, <2>1
    <3> QED BY <3>1, ProvenanceActs
  <2>2. ASSUME Parity \in board.opted \ board.advisory
        PROVE  /\ tree.artifacts # Absent
               /\ <<tree.artifacts.from, tree.design>> \in board.alike
    <3>1. PICK does \in Acts(Parity, tree.design) :
            does = "passes" \/ does = "not_applicable"
      BY <1>1, <1>2, <2>2
    <3> QED BY <3>1, ParityActs
  <2> QED BY <2>1, <2>2 DEF BoundTo
<1> QED BY <1>3, <1>4

\* A verdict that is about to be recorded, and whose run the designer left
\* alone, is true of the design, and of the artifacts it will stand beside as
\* far as the gates look at them: their record names that design and their
\* copper is its copper.  The hold keeps the other commands away (run.py
\* validate --write).
THEOREM VerdictIsSound == Spec => []VerdictSound
<1>1. IInv => VerdictSound
  <2> SUFFICES ASSUME IInv, NEW p \in Proc, pc[p] = "writing", quiet[p] # "edited",
                      Accepted(p), closure[p] # Unavailable
               PROVE  /\ \A gate \in DOMAIN board.outcome : Good(gate, closure[p])
                      /\ BoundTo(tree.artifacts, closure[p])
    BY DEF VerdictSound
  <2>1. quiet[p] = "quiet"
    BY Types DEF IInv, HeldInv, Held, Writing
  <2>2. Seen(p) /\ Judgement(p)
    BY <2>1 DEF IInv, QuietInv, Knows
  <2>3. closure[p] = tree.design /\ Len(status[p]) = Len(Gates)
    BY <2>2 DEF Judgement
  <2> QED BY <2>2, <2>3, AcceptedIsGood
<1> QED BY <1>1, Invariance, PTL

\* An undisturbed READY is true of the commit it names: that commit carries a
\* design that no gate blocks on and every mandatory gate passes, a whole
\* verdict about it, and artifacts whose record names it and whose copper is
\* its copper (run.py release-check, release.readiness).
THEOREM ReadyIsReleasable == Spec => []ReadyMeansReleasable
<1>1. IInv => ReadyMeansReleasable
  <2> SUFFICES ASSUME IInv, NEW p \in Proc, pc[p] = "ready", quiet[p] = "quiet"
               PROVE  LET c == named[p] IN
                        /\ c.design \in Design
                        /\ \A gate \in DOMAIN board.outcome :
                             /\ Good(gate, c.design)
                             /\ gate \in board.mandatory => Passed(gate, c.design)
                        /\ board.mandatory \subseteq board.opted
                        /\ c.report # Absent /\ c.report.accepted /\ ~ c.report.partial
                        /\ c.report.closure = c.design
                        /\ BoundTo(c.artifacts, c.design)
    BY DEF ReadyMeansReleasable
  <2>1. /\ Seen(p) /\ Judgement(p) /\ named[p] = head /\ Tracked
        /\ \A part \in Part : ~ Differs(part)
        /\ GatesPass(p) /\ VerdictAccepts(p)
    BY DEF IInv, QuietInv, Knows
  <2>2. \A part \in Part : tree[part] = head[part]
    BY <2>1 DEF Differs, Tracked, IInv, HeadInv
  <2>3. /\ tree.design = head.design /\ tree.artifacts = head.artifacts
        /\ tree.report = head.report
    BY <2>2 DEF Part
  <2>4. tree.design \in Design
    BY Types DEF Content
  <2>5. ASSUME NEW gate \in board.mandatory
        PROVE  /\ gate \in board.opted
               /\ gate \in DOMAIN board.outcome => Passed(gate, tree.design)
    <3>1. PICK i \in DOMAIN Gates : Gates[i] = gate /\ status[p][i] \in {"PASS", "ADVISORY"}
      BY <2>1 DEF GatesPass
    <3>2. i \in DOMAIN status[p]
      BY <2>1, <3>1, Types, ReleaseAssumption DEF Judgement
    <3>3. PICK does \in Does : Could(gate, does) /\ status[p][i] = Judged(gate, does)
      BY <2>1, <3>1, <3>2 DEF Seen, TrueStatus
    <3>4. /\ gate \in board.opted
          /\ does = "passes" \/ (does = "fails" /\ gate \in board.advisory)
      BY <3>1, <3>3, JudgedPassed
    <3>5. DOMAIN board.outcome = Gate \ {Provenance, Parity}
      BY Types, ReleaseAssumption DEF Board
    <3>6. ASSUME gate \in DOMAIN board.outcome PROVE Passed(gate, tree.design)
      <4>1. does = board.outcome[gate][tree.design]
        BY <3>3, <3>4, <3>5, <3>6, OtherActs DEF Could
      <4> QED BY <3>4, <4>1 DEF Passed
    <3> QED BY <3>4, <3>6
  <2>6. /\ \A gate \in DOMAIN board.outcome : Good(gate, tree.design)
        /\ BoundTo(tree.artifacts, tree.design)
    BY <2>1, AcceptedIsGood DEF GatesPass, Judgement
  <2>7. /\ tree.report # Absent /\ ~ tree.report.partial /\ tree.report.accepted
        /\ tree.report.closure = tree.design
    BY <2>1 DEF VerdictAccepts, Judgement
  <2> QED BY <2>1, <2>3, <2>4, <2>5, <2>6, <2>7
<1> QED BY <1>1, Invariance, PTL
=============================================================================
