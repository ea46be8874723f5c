--------------------------- MODULE PipelineProof ----------------------------
(***************************************************************************)
(* Proofs about Pipeline, for every manifest and every outcome of the      *)
(* tools.  The argument: a build goes through its steps in one order and   *)
(* the manifest never changes, so what a check established on the way      *)
(* still holds at the end if no later step can undo it; and a step that    *)
(* found something wrong has left a blocker, which nothing takes back.     *)
(***************************************************************************)
EXTENDS Pipeline, FiniteSetTheorems, TLAPS

-----------------------------------------------------------------------------
(* How far a build is: the labels behind each step that establishes        *)
(* something.                                                              *)
AfterDeliver      == {"ready"}
AfterRecord       == AfterDeliver \cup {"deliver"}
AfterBind         == AfterRecord \cup {"record"}
AfterPackage      == AfterBind \cup {"bind"}
AfterFormatCpl    == AfterPackage \cup {"package", "format_bom"}
AfterNaming       == AfterFormatCpl \cup {"format_cpl"}
AfterGenerated    == AfterNaming \cup {"naming"}
AfterDestinations == AfterGenerated \cup
  {"isolate", "outputs", "erc", "drc", "gerbers", "drill", "cpl", "bom", "generated"}
AfterCoherence    == AfterDestinations \cup {"destinations"}

\* What each step leaves behind, if none has added a blocker.
CoherenceInv    == pc \in AfterCoherence => ~Incoherent
DestinationsInv == pc \in AfterDestinations => ~Clobbers /\ ~Duplicates
GeneratedInv ==
  pc \in AfterGenerated /\ ~blockers => \A d \in Documents : doc[d] # "absent"

\* Every staged gerber is an export file under the name its row gives, or
\* under its own.
NamingInv ==
  pc \in AfterNaming /\ ~blockers =>
    IF m.named
      THEN /\ ~NamingProblem
           /\ DOMAIN gerbers = Claimed
           /\ \A n \in Claimed : gerbers[n] \in Claims(n)
      ELSE /\ DOMAIN gerbers = exported
           /\ \A f \in exported : gerbers[f] = f

FormatInv ==
  pc \in AfterFormatCpl /\ ~blockers /\ m.registry => doc["cpl"] = "oriented"
PackageInv ==
  pc \in AfterPackage => archive = DOMAIN gerbers /\ archive \subseteq m.approved
\* What is not yet made is empty.
EmptyInv ==
  /\ pc \in Step \ AfterPackage => archive = {}
  /\ pc \in Step \ AfterBind => bound = {}
BindInv == pc \in AfterBind => bound = {d \in Reports : doc[d] # "absent"}
RecordInv ==
  pc \in AfterRecord =>
    record = Destined /\ DOMAIN Destined = StagedNow /\ IsInjective(Destined)
DeliverInv ==
  pc \in AfterDeliver =>
    ~blockers /\ m.files.fabrication_manifest \notin Range(record)

IInv ==
  /\ TypeOK
  /\ CoherenceInv /\ DestinationsInv /\ GeneratedInv /\ NamingInv
  /\ FormatInv /\ PackageInv /\ EmptyInv /\ BindInv /\ RecordInv /\ DeliverInv

-----------------------------------------------------------------------------
(* The order of the steps.                                                 *)
LEMMA Order ==
  ASSUME Go
  PROVE  /\ pc = "coherence"    => pc' = "destinations"
         /\ pc = "destinations" => pc' = "isolate"
         /\ pc = "isolate"      => pc' = "outputs"
         /\ pc = "outputs"      => pc' = "erc"
         /\ pc = "erc"          => pc' = "drc"
         /\ pc = "drc"          => pc' = "gerbers"
         /\ pc = "gerbers"      => pc' = "drill"
         /\ pc = "drill"        => pc' = "cpl"
         /\ pc = "cpl"          => pc' = "bom"
         /\ pc = "bom"          => pc' = "generated"
         /\ pc = "generated"    => pc' = "naming"
         /\ pc = "naming"       => pc' = "format_cpl"
         /\ pc = "format_cpl"   => pc' = "format_bom"
         /\ pc = "format_bom"   => pc' = "package"
         /\ pc = "package"      => pc' = "bind"
         /\ pc = "bind"         => pc' = "record"
         /\ pc = "record"       => pc' = "deliver"
<1>1. PICK i \in 1 .. 17 : pc = Steps[i] /\ pc' = Steps[i + 1]
  BY DEF Go, Steps
<1>2. \/ i = 1 \/ i = 2 \/ i = 3 \/ i = 4 \/ i = 5 \/ i = 6 \/ i = 7 \/ i = 8 \/ i = 9
      \/ i = 10 \/ i = 11 \/ i = 12 \/ i = 13 \/ i = 14 \/ i = 15 \/ i = 16 \/ i = 17
  OBVIOUS
<1> QED
  BY <1>1, <1>2 DEF Steps

LEMMA StepsAre ==
  Step = {"coherence", "destinations", "isolate", "outputs", "erc", "drc",
          "gerbers", "drill", "cpl", "bom", "generated", "naming",
          "format_cpl", "format_bom", "package", "bind", "record", "deliver"}
BY DEF Step, Range, Steps

LEMMA InitIInv == Init => IInv
<1> SUFFICES ASSUME Init PROVE IInv
  OBVIOUS
<1>1. TypeOK
  <2>1. pc \in Step
    BY StepsAre DEF Init
  <2>2. DOMAIN Nothing = {} /\ Range(Nothing) = {}
    BY DEF Nothing, Range
  <2> QED BY <2>1, <2>2 DEF Init, TypeOK, Documents
<1>2. pc = "coherence"
  BY DEF Init
<1>3. archive = {} /\ bound = {}
  BY DEF Init
<1> QED
  BY <1>1, <1>2, <1>3
  DEF IInv, CoherenceInv, DestinationsInv, GeneratedInv, NamingInv, FormatInv,
      PackageInv, EmptyInv, BindInv, RecordInv, DeliverInv, AfterCoherence,
      AfterDestinations, AfterGenerated, AfterNaming, AfterFormatCpl,
      AfterPackage, AfterBind, AfterRecord, AfterDeliver

-----------------------------------------------------------------------------
\* Only the step that establishes something brings a build behind it.
LEMMA Progress ==
  ASSUME Go
  PROVE  /\ pc \in Step /\ pc' \in Step \ {"coherence"} /\ pc' # "ready"
         /\ pc \in AfterPackage => pc' \in AfterPackage
         /\ pc \in AfterBind => pc' \in AfterBind
         /\ pc' \in AfterCoherence    => pc \in AfterCoherence \cup {"coherence"}
         /\ pc' \in AfterDestinations => pc \in AfterDestinations \cup {"destinations"}
         /\ pc' \in AfterGenerated    => pc \in AfterGenerated \cup {"generated"}
         /\ pc' \in AfterNaming       => pc \in AfterNaming \cup {"naming"}
         /\ pc' \in AfterFormatCpl    => pc \in AfterFormatCpl \cup {"format_cpl"}
         /\ pc' \in AfterPackage      => pc \in AfterPackage \cup {"package"}
         /\ pc' \in AfterBind         => pc \in AfterBind \cup {"bind"}
         /\ pc' \in AfterRecord       => pc \in AfterRecord \cup {"record"}
<1>1. pc \in {"coherence", "destinations", "isolate", "outputs", "erc", "drc",
              "gerbers", "drill", "cpl", "bom", "generated", "naming",
              "format_cpl", "format_bom", "package", "bind", "record"}
  <2>1. PICK i \in 1 .. 17 : pc = Steps[i]
    BY DEF Go, Steps
  <2> QED BY <2>1 DEF Steps
<1> QED
  BY <1>1, Order, StepsAre
  DEF AfterCoherence, AfterDestinations, AfterGenerated, AfterNaming, AfterFormatCpl,
      AfterPackage, AfterBind, AfterRecord, AfterDeliver

\* What is staged, and where it goes, depends on the files alone.
LEMMA SameDestinations ==
  ASSUME m' = m, doc' = doc, gerbers' = gerbers
  PROVE  StagedNow' = StagedNow /\ Destined' = Destined
<1>1. StagedNow' = StagedNow
  BY DEF StagedNow
<1> QED
  BY <1>1 DEF Destined, InDir

LEMMA SameNaming ==
  ASSUME m' = m, exported' = exported
  PROVE  /\ \A n : Claims(n)' = Claims(n)
         /\ Claimed' = Claimed
         /\ NamingProblem' = NamingProblem
<1>1. \A n : Claims(n)' = Claims(n)
  BY DEF Claims
<1>2. Claimed' = Claimed
  BY <1>1 DEF Claimed
<1> QED
  BY <1>1, <1>2 DEF NamingProblem

\* A build that refused, or is refused, has nothing left to say.
LEMMA RefusedKeeps ==
  ASSUME TypeOK', pc' = "refused" PROVE IInv'
BY StepsAre
   DEF IInv, CoherenceInv, DestinationsInv, GeneratedInv, NamingInv, FormatInv,
       PackageInv, EmptyInv, BindInv, RecordInv, DeliverInv, AfterCoherence,
       AfterDestinations, AfterGenerated, AfterNaming, AfterFormatCpl,
       AfterPackage, AfterBind, AfterRecord, AfterDeliver

data == <<m, exported, doc, gerbers, archive, bound, record>>

\* A check, which changes no file, keeps what was established before it.
LEMMA CheckKeeps ==
  ASSUME IInv, UNCHANGED data, blockers' \in BOOLEAN, blockers => blockers',
         pc' \in Step \cup {"ready", "refused"},
         pc' \in AfterCoherence => pc \in AfterCoherence \/ ~Incoherent,
         pc' \in AfterDestinations =>
           pc \in AfterDestinations \/ (~Clobbers /\ ~Duplicates),
         pc' \in AfterGenerated /\ ~blockers' =>
           pc \in AfterGenerated \/ \A d \in Documents : doc[d] # "absent",
         pc' \in AfterNaming => pc \in AfterNaming,
         pc' \in AfterFormatCpl /\ ~blockers' /\ m.registry =>
           pc \in AfterFormatCpl \/ doc["cpl"] = "oriented",
         pc' \in AfterPackage => pc \in AfterPackage,
         pc' \in AfterBind => pc \in AfterBind,
         pc' \in Step \ AfterPackage => pc \in Step \ AfterPackage,
         pc' \in Step \ AfterBind => pc \in Step \ AfterBind,
         pc' \in AfterRecord => pc \in AfterRecord,
         pc' \in AfterDeliver =>
           ~blockers' /\ m.files.fabrication_manifest \notin Range(record)
  PROVE  IInv'
<1>1. /\ m' = m /\ exported' = exported /\ doc' = doc /\ gerbers' = gerbers
      /\ archive' = archive /\ bound' = bound /\ record' = record
  BY DEF data
<1>2. TypeOK'
  <2>1. Range(gerbers)' = Range(gerbers) /\ Range(record)' = Range(record)
    BY <1>1
  <2> QED BY <1>1, <2>1 DEF IInv, TypeOK
<1>3. CoherenceInv'
  BY <1>1 DEF IInv, CoherenceInv, Incoherent
<1>4. DestinationsInv'
  <2>1. Clobbers' = Clobbers /\ Duplicates' = Duplicates
    BY <1>1 DEF Clobbers, Duplicates, Declared
  <2> QED BY <2>1 DEF IInv, DestinationsInv
<1>5. GeneratedInv'
  BY <1>1 DEF IInv, GeneratedInv
<1>6. NamingInv'
  <2>1. /\ \A n : Claims(n)' = Claims(n)
        /\ Claimed' = Claimed /\ NamingProblem' = NamingProblem
    BY <1>1, SameNaming
  <2> QED BY <1>1, <2>1 DEF IInv, NamingInv
<1>7. FormatInv'
  BY <1>1 DEF IInv, FormatInv
<1>8. PackageInv'
  BY <1>1 DEF IInv, PackageInv
<1>9. BindInv'
  BY <1>1 DEF IInv, BindInv
<1>10. RecordInv'
  <2>1. StagedNow' = StagedNow /\ Destined' = Destined
    BY <1>1, SameDestinations
  <2> QED BY <1>1, <2>1 DEF IInv, RecordInv
<1>11. DeliverInv'
  BY <1>1 DEF IInv, DeliverInv
<1>12. EmptyInv'
  BY <1>1 DEF IInv, EmptyInv
<1> QED
  BY <1>2, <1>3, <1>4, <1>5, <1>6, <1>7, <1>8, <1>9, <1>10, <1>11, <1>12 DEF IInv

\* A check that blocks and goes on, or refuses, and establishes nothing.
LEMMA PlainCheckKeeps ==
  ASSUME IInv, UNCHANGED data, blockers' \in BOOLEAN, blockers => blockers',
         Go \/ pc' = "refused",
         pc \in {"isolate", "outputs", "format_bom"}
  PROVE  IInv'
<1>1. CASE Go
  <2>1. /\ pc \notin {"coherence", "destinations", "generated", "naming",
                      "format_cpl", "package", "bind", "record"}
    OBVIOUS
  <2> QED BY <1>1, <2>1, Progress, CheckKeeps DEF AfterDeliver
<1>2. CASE pc' = "refused"
  <2>1. TypeOK'
    <3>1. Range(gerbers)' = Range(gerbers) /\ Range(record)' = Range(record)
      BY DEF data
    <3> QED BY <1>2, <3>1 DEF IInv, TypeOK, data
  <2> QED BY <1>2, <2>1, RefusedKeeps
<1> QED BY <1>1, <1>2

LEMMA CoherenceKeeps == IInv /\ CheckCoherence => IInv'
<1> SUFFICES ASSUME IInv, CheckCoherence PROVE IInv'
  OBVIOUS
<1>1. /\ UNCHANGED data /\ pc = "coherence"
      /\ blockers' \in BOOLEAN /\ (blockers => blockers')
  BY DEF CheckCoherence, Unless, BlockIf, data, At, IInv, TypeOK, Incoherent
<1>2. CASE Incoherent
  <2>1. pc' = "refused"
    BY <1>2 DEF CheckCoherence, Unless
  <2> QED
    BY <1>1, <2>1, CheckKeeps, StepsAre
    DEF AfterCoherence, AfterDestinations, AfterGenerated, AfterNaming, AfterFormatCpl,
        AfterPackage, AfterBind, AfterRecord, AfterDeliver
<1>3. CASE ~Incoherent
  <2>1. Go
    BY <1>3 DEF CheckCoherence, Unless
  <2>2. pc \notin {"destinations", "generated", "naming", "format_cpl", "package",
                   "bind", "record"}
    BY <1>1
  <2> QED BY <1>1, <1>3, <2>1, <2>2, Progress, CheckKeeps DEF AfterDeliver
<1> QED BY <1>2, <1>3

LEMMA DestinationsKeep == IInv /\ CheckDestinations => IInv'
<1> SUFFICES ASSUME IInv, CheckDestinations PROVE IInv'
  OBVIOUS
<1>1. /\ UNCHANGED data /\ pc = "destinations"
      /\ blockers' \in BOOLEAN /\ (blockers => blockers')
  BY DEF CheckDestinations, Unless, BlockIf, data, At, IInv, TypeOK, Clobbers, Duplicates
<1>2. CASE Clobbers \/ Duplicates
  <2>1. pc' = "refused"
    BY <1>2 DEF CheckDestinations, Unless
  <2> QED
    BY <1>1, <2>1, CheckKeeps, StepsAre
    DEF AfterCoherence, AfterDestinations, AfterGenerated, AfterNaming, AfterFormatCpl,
        AfterPackage, AfterBind, AfterRecord, AfterDeliver
<1>3. CASE ~(Clobbers \/ Duplicates)
  <2>1. Go
    BY <1>3 DEF CheckDestinations, Unless
  <2>2. pc \notin {"coherence", "generated", "naming", "format_cpl", "package",
                   "bind", "record"}
    BY <1>1
  <2> QED BY <1>1, <1>3, <2>1, <2>2, Progress, CheckKeeps DEF AfterDeliver
<1> QED BY <1>2, <1>3

LEMMA IsolateKeeps == IInv /\ (Isolate \/ DeclareOutputs) => IInv'
<1> SUFFICES ASSUME IInv, Isolate \/ DeclareOutputs PROVE IInv'
  OBVIOUS
<1>1. /\ UNCHANGED data /\ pc \in {"isolate", "outputs"}
      /\ blockers' \in BOOLEAN /\ (blockers => blockers')
      /\ Go \/ pc' = "refused"
  BY DEF Isolate, DeclareOutputs, Unless, BlockIf, data, At, IInv, TypeOK
<1> QED BY <1>1, PlainCheckKeeps

-----------------------------------------------------------------------------
(* The steps that make files.                                              *)

\* The steps in which nothing is established but what the tools wrote.
Tools == {"erc", "drc", "gerbers", "drill", "cpl", "bom"}

LEMMA ToolKeeps ==
  ASSUME IInv, pc \in Tools, Go, m' = m, archive' = archive, bound' = bound, TypeOK'
  PROVE  IInv'
<1>1. pc \in AfterDestinations /\ pc \in AfterCoherence /\ pc \in Step \ AfterBind
      /\ pc \in Step \ AfterPackage
  BY StepsAre
  DEF Tools, AfterCoherence, AfterDestinations, AfterGenerated, AfterNaming,
      AfterFormatCpl, AfterPackage, AfterBind, AfterRecord, AfterDeliver
<1>2. /\ pc' \notin AfterGenerated /\ pc' \notin AfterNaming
      /\ pc' \notin AfterFormatCpl /\ pc' \notin AfterPackage
      /\ pc' \notin AfterBind /\ pc' \notin AfterRecord /\ pc' \notin AfterDeliver
  BY Order
  DEF Tools, AfterGenerated, AfterNaming, AfterFormatCpl, AfterPackage, AfterBind,
      AfterRecord, AfterDeliver
<1>3. ~Incoherent' /\ ~Clobbers' /\ ~Duplicates'
  <2>1. ~Incoherent /\ ~Clobbers /\ ~Duplicates
    BY <1>1 DEF IInv, CoherenceInv, DestinationsInv
  <2>2. Incoherent' = Incoherent /\ Clobbers' = Clobbers /\ Duplicates' = Duplicates
    BY DEF Incoherent, Clobbers, Duplicates, Declared
  <2> QED BY <2>1, <2>2
<1>4. archive' = {} /\ bound' = {}
  BY <1>1 DEF IInv, EmptyInv
<1> QED
  BY <1>2, <1>3, <1>4
  DEF IInv, CoherenceInv, DestinationsInv, GeneratedInv, NamingInv, FormatInv,
      PackageInv, EmptyInv, BindInv, RecordInv, DeliverInv

LEMMA DocumentKeeps == ASSUME NEW d \in Documents, IInv, RunDocument(d) PROVE IInv'
<1>1. /\ pc = d /\ pc \in Tools /\ Go
      /\ m' = m /\ exported' = exported /\ gerbers' = gerbers
      /\ archive' = archive /\ bound' = bound /\ record' = record
  BY DEF RunDocument, At, Documents, Tools
<1>2. bound = {}
  <2>1. pc \in Step \ AfterBind
    BY <1>1, StepsAre DEF Tools, AfterBind, AfterRecord, AfterDeliver
  <2> QED BY <2>1 DEF IInv, EmptyInv
<1>3. TypeOK'
  <2>1. Range(gerbers)' = Range(gerbers) /\ Range(record)' = Range(record)
    BY <1>1
  <2>2. doc' \in [Documents -> {"absent", "raw", "fab", "oriented"}]
    BY DEF RunDocument, IInv, TypeOK
  <2>3. blockers' \in BOOLEAN
    BY DEF RunDocument, BlockIf, IInv, TypeOK
  <2> QED BY <1>1, <1>2, <2>1, <2>2, <2>3, Progress DEF IInv, TypeOK
<1> QED BY <1>1, <1>3, ToolKeeps

LEMMA ExportKeeps ==
  ASSUME NEW s \in {"gerbers", "drill"}, IInv, RunExport(s) PROVE IInv'
<1>1. /\ pc \in Tools /\ Go
      /\ m' = m /\ doc' = doc /\ gerbers' = gerbers
      /\ archive' = archive /\ bound' = bound /\ record' = record
  BY DEF RunExport, At, Tools
<1>2. TypeOK'
  <2>1. Range(gerbers)' = Range(gerbers) /\ Range(record)' = Range(record)
    BY <1>1
  <2>2. exported \subseteq exported' /\ exported' \subseteq File
    BY DEF RunExport, IInv, TypeOK
  <2>3. blockers' \in BOOLEAN
    BY DEF RunExport, BlockIf, IInv, TypeOK
  <2>4. Range(gerbers)' \subseteq exported'
    BY <2>1, <2>2 DEF IInv, TypeOK
  <2> QED BY <1>1, <2>1, <2>2, <2>3, <2>4, Progress DEF IInv, TypeOK
<1> QED BY <1>1, <1>2, ToolKeeps

LEMMA GeneratedKeeps == IInv /\ CheckGenerated => IInv'
<1> SUFFICES ASSUME IInv, CheckGenerated PROVE IInv'
  OBVIOUS
<1>1. /\ UNCHANGED data /\ pc = "generated" /\ Go
      /\ blockers' \in BOOLEAN /\ (blockers => blockers')
      /\ ~blockers' => \A d \in Documents : doc[d] # "absent"
  BY DEF CheckGenerated, BlockIf, data, At, IInv, TypeOK
<1>2. pc \notin {"coherence", "destinations", "naming", "format_cpl", "package",
                 "bind", "record"}
  BY <1>1
<1> QED BY <1>1, <1>2, Progress, CheckKeeps DEF AfterDeliver

LEMMA NamingKeeps == IInv /\ NameForFab => IInv'
<1> SUFFICES ASSUME IInv, NameForFab PROVE IInv'
  OBVIOUS
<1>1. /\ pc = "naming" /\ Go /\ pc' = "format_cpl"
      /\ m' = m /\ exported' = exported /\ doc' = doc
      /\ archive' = archive /\ bound' = bound /\ record' = record
  BY Order DEF NameForFab, At
<1>2. /\ pc \in AfterCoherence /\ pc \in AfterDestinations /\ pc \in AfterGenerated
      /\ pc \in Step \ AfterPackage /\ pc \in Step \ AfterBind
  BY <1>1, StepsAre
  DEF AfterCoherence, AfterDestinations, AfterGenerated, AfterNaming,
      AfterFormatCpl, AfterPackage, AfterBind, AfterRecord, AfterDeliver
<1>3. /\ pc' \notin AfterFormatCpl /\ pc' \notin AfterPackage
      /\ pc' \notin AfterBind /\ pc' \notin AfterRecord /\ pc' \notin AfterDeliver
  BY <1>1
  DEF AfterFormatCpl, AfterPackage, AfterBind, AfterRecord, AfterDeliver
<1>4. blockers' \in BOOLEAN /\ (blockers => blockers')
  BY DEF NameForFab, BlockIf, IInv, TypeOK
<1>5. /\ DOMAIN gerbers' \subseteq Name /\ Range(gerbers') \subseteq exported
      /\ ~blockers' =>
           IF m.named
             THEN /\ ~NamingProblem
                  /\ DOMAIN gerbers' = Claimed
                  /\ \A n \in Claimed : gerbers'[n] \in Claims(n)
             ELSE /\ DOMAIN gerbers' = exported
                  /\ \A f \in exported : gerbers'[f] = f
  <2>1. CASE m.named
    <3>1. PICK g \in [Claimed -> exported] :
            (\A n \in Claimed : g[n] \in Claims(n)) /\ gerbers' = g
      BY <2>1 DEF NameForFab
    <3>2. ~blockers' => ~NamingProblem
      BY <2>1 DEF NameForFab, BlockIf
    <3>3. Claimed \subseteq Name
      BY DEF Claimed
    <3>4. Range(gerbers') \subseteq exported
      BY <3>1 DEF Range
    <3> QED BY <2>1, <3>1, <3>2, <3>3, <3>4
  <2>2. CASE ~m.named
    <3>1. gerbers' = [f \in exported |-> f]
      BY <2>2 DEF NameForFab
    <3>2. DOMAIN gerbers' = exported /\ \A f \in exported : gerbers'[f] = f
      BY <3>1
    <3>3. Range(gerbers') \subseteq exported
      BY <3>2 DEF Range
    <3>4. exported \subseteq Name
      BY PipelineAssumption DEF IInv, TypeOK
    <3> QED BY <2>2, <3>2, <3>3, <3>4
  <2> QED BY <2>1, <2>2
<1>6. archive = {} /\ bound = {}
  BY <1>2 DEF IInv, EmptyInv
<1>7. TypeOK'
  <2>1. Range(gerbers)' = Range(gerbers') /\ Range(record)' = Range(record)
    BY <1>1 DEF Range
  <2> QED BY <1>1, <1>4, <1>5, <1>6, <2>1, Progress DEF IInv, TypeOK
<1>8. CoherenceInv' /\ DestinationsInv'
  <2>1. Incoherent' = Incoherent /\ Clobbers' = Clobbers /\ Duplicates' = Duplicates
    BY <1>1 DEF Incoherent, Clobbers, Duplicates, Declared
  <2> QED BY <1>2, <2>1 DEF IInv, CoherenceInv, DestinationsInv
<1>9. GeneratedInv'
  BY <1>1, <1>2, <1>4 DEF IInv, GeneratedInv
<1>10. NamingInv'
  <2>1. /\ \A n : Claims(n)' = Claims(n)
        /\ Claimed' = Claimed /\ NamingProblem' = NamingProblem
    BY <1>1, SameNaming
  <2> QED BY <1>1, <1>5, <2>1 DEF NamingInv
<1> QED
  BY <1>1, <1>3, <1>6, <1>7, <1>8, <1>9, <1>10
  DEF IInv, FormatInv, PackageInv, EmptyInv, BindInv, RecordInv, DeliverInv

LEMMA LeaveKeeps ==
  ASSUME NEW d \in {"cpl", "bom"}, IInv, LeaveFormat(d) \/ RefuseFormat(d)
  PROVE  IInv'
<1>1. /\ UNCHANGED data /\ pc = FormatStep[d] /\ Go
      /\ blockers' \in BOOLEAN /\ (blockers => blockers')
  BY DEF LeaveFormat, RefuseFormat, BlockIf, data, At, IInv, TypeOK
<1>2. CASE d = "bom"
  <2>1. pc = "format_bom"
    BY <1>1, <1>2 DEF FormatStep
  <2> QED BY <1>1, <2>1, PlainCheckKeeps
<1>3. CASE d = "cpl"
  <2>1. pc = "format_cpl"
    BY <1>1, <1>3 DEF FormatStep
  <2>2. pc \in AfterCoherence /\ pc \in AfterGenerated
    BY <2>1
    DEF AfterCoherence, AfterDestinations, AfterGenerated, AfterNaming
  <2>3. ASSUME ~blockers', m.registry PROVE FALSE
    <3>1. "cpl" \in m.formats
      BY <2>2, <2>3 DEF IInv, CoherenceInv, Incoherent
    <3>2. doc["cpl"] # "absent"
      BY <1>1, <2>2, <2>3 DEF IInv, GeneratedInv, Documents
    <3>3. RefuseFormat(d)
      BY <1>3, <3>1, <3>2 DEF LeaveFormat
    <3> QED BY <2>3, <3>3 DEF RefuseFormat, BlockIf
  <2>4. pc \notin {"coherence", "destinations", "generated", "naming", "package",
                   "bind", "record"}
    BY <2>1
  <2> QED BY <1>1, <2>3, <2>4, Progress, CheckKeeps DEF AfterDeliver
<1> QED BY <1>2, <1>3

LEMMA FormatKeeps ==
  ASSUME NEW d \in {"cpl", "bom"}, IInv, Format(d) PROVE IInv'
<1>1. /\ pc = FormatStep[d] /\ Go /\ d \in Documents
      /\ m' = m /\ exported' = exported /\ gerbers' = gerbers
      /\ archive' = archive /\ bound' = bound /\ record' = record
      /\ blockers' \in BOOLEAN /\ (blockers => blockers')
  BY DEF Format, BlockIf, At, IInv, TypeOK, Documents
<1>2. pc \in {"format_cpl", "format_bom"} /\ (pc = "format_cpl" => d = "cpl")
  BY <1>1 DEF FormatStep
<1>3. /\ pc \in AfterCoherence /\ pc \in AfterDestinations /\ pc \in AfterGenerated
      /\ pc \in AfterNaming
      /\ pc \in Step \ AfterPackage /\ pc \in Step \ AfterBind
  BY <1>2, StepsAre
  DEF AfterCoherence, AfterDestinations, AfterGenerated, AfterNaming,
      AfterFormatCpl, AfterPackage, AfterBind, AfterRecord, AfterDeliver
<1>4. pc' \in {"format_bom", "package"}
  BY <1>1, <1>2, Order
<1>5. /\ pc' \notin AfterPackage
      /\ pc' \notin AfterBind /\ pc' \notin AfterRecord /\ pc' \notin AfterDeliver
  BY <1>4 DEF AfterPackage, AfterBind, AfterRecord, AfterDeliver
<1>6. archive = {} /\ bound = {}
  BY <1>3 DEF IInv, EmptyInv
<1>7. /\ doc' \in [Documents -> {"absent", "raw", "fab", "oriented"}]
      /\ \A e \in Documents : doc[e] # "absent" => doc'[e] # "absent"
      /\ d = "cpl" /\ m.registry => doc'["cpl"] = "oriented"
      /\ d = "bom" => doc'["cpl"] = doc["cpl"]
  <2>1. doc' = [doc EXCEPT ![d] = IF d = "cpl" /\ m.registry THEN "oriented" ELSE "fab"]
    BY DEF Format
  <2>2. doc \in [Documents -> {"absent", "raw", "fab", "oriented"}] /\ "cpl" \in Documents
    BY DEF IInv, TypeOK, Documents
  <2> QED BY <1>1, <2>1, <2>2
<1>8. TypeOK'
  <2>1. Range(gerbers)' = Range(gerbers) /\ Range(record)' = Range(record)
    BY <1>1
  <2> QED BY <1>1, <1>6, <1>7, <2>1, Progress DEF IInv, TypeOK
<1>9. CoherenceInv' /\ DestinationsInv'
  <2>1. Incoherent' = Incoherent /\ Clobbers' = Clobbers /\ Duplicates' = Duplicates
    BY <1>1 DEF Incoherent, Clobbers, Duplicates, Declared
  <2> QED BY <1>3, <2>1 DEF IInv, CoherenceInv, DestinationsInv
<1>10. GeneratedInv'
  BY <1>1, <1>3, <1>7 DEF IInv, GeneratedInv
<1>11. NamingInv'
  <2>1. /\ \A n : Claims(n)' = Claims(n)
        /\ Claimed' = Claimed /\ NamingProblem' = NamingProblem
    BY <1>1, SameNaming
  <2> QED BY <1>1, <1>3, <2>1 DEF IInv, NamingInv
<1>12. FormatInv'
  <2>1. CASE d = "cpl"
    BY <1>1, <1>7, <2>1 DEF FormatInv
  <2>2. CASE d = "bom"
    <3>1. pc \in AfterFormatCpl
      BY <1>2, <2>2 DEF AfterFormatCpl
    <3> QED BY <1>1, <1>7, <2>2, <3>1 DEF IInv, FormatInv
  <2> QED BY <2>1, <2>2
<1> QED
  BY <1>1, <1>5, <1>6, <1>8, <1>9, <1>10, <1>11, <1>12
  DEF IInv, PackageInv, EmptyInv, BindInv, RecordInv, DeliverInv

LEMMA PackageKeeps == IInv /\ Package => IInv'
<1> SUFFICES ASSUME IInv, Package PROVE IInv'
  OBVIOUS
<1> DEFINE kept == DOMAIN gerbers \cap m.approved
<1>1. /\ pc = "package" /\ Go /\ pc' = "bind"
      /\ m' = m /\ exported' = exported /\ doc' = doc
      /\ bound' = bound /\ record' = record
      /\ blockers' \in BOOLEAN /\ (blockers => blockers')
      /\ ~blockers' => DOMAIN gerbers \subseteq m.approved
  BY Order DEF Package, BlockIf, At, IInv, TypeOK
<1>2. /\ DOMAIN gerbers' = kept /\ \A n \in kept : gerbers'[n] = gerbers[n]
      /\ archive' = kept
  BY DEF Package, Restrict
<1>3. /\ pc \in AfterCoherence /\ pc \in AfterDestinations /\ pc \in AfterGenerated
      /\ pc \in AfterNaming /\ pc \in AfterFormatCpl /\ pc \in Step \ AfterBind
  BY <1>1, StepsAre
  DEF AfterCoherence, AfterDestinations, AfterGenerated, AfterNaming,
      AfterFormatCpl, AfterPackage, AfterBind, AfterRecord, AfterDeliver
<1>4. pc' \notin AfterBind /\ pc' \notin AfterRecord /\ pc' \notin AfterDeliver
      /\ pc' \in AfterPackage
  BY <1>1 DEF AfterPackage, AfterBind, AfterRecord, AfterDeliver
<1>5. bound = {}
  BY <1>3 DEF IInv, EmptyInv
<1>6. TypeOK'
  <2>1. Range(record)' = Range(record)
    BY <1>1
  <2>2. Range(gerbers)' \subseteq Range(gerbers)
    BY <1>2 DEF Range
  <2>3. Range(gerbers)' \subseteq exported /\ DOMAIN gerbers' \subseteq Name
    BY <1>2, <2>2 DEF IInv, TypeOK
  <2> QED BY <1>1, <1>2, <1>5, <2>1, <2>3, Progress DEF IInv, TypeOK
<1>7. CoherenceInv' /\ DestinationsInv'
  <2>1. Incoherent' = Incoherent /\ Clobbers' = Clobbers /\ Duplicates' = Duplicates
    BY <1>1 DEF Incoherent, Clobbers, Duplicates, Declared
  <2> QED BY <1>3, <2>1 DEF IInv, CoherenceInv, DestinationsInv
<1>8. GeneratedInv' /\ FormatInv'
  BY <1>1, <1>3 DEF IInv, GeneratedInv, FormatInv
<1>9. NamingInv'
  <2>1. /\ \A n : Claims(n)' = Claims(n)
        /\ Claimed' = Claimed /\ NamingProblem' = NamingProblem
    BY <1>1, SameNaming
  <2>2. ~blockers' => kept = DOMAIN gerbers
    BY <1>1
  <2> HIDE DEF kept
  <2> QED BY <1>1, <1>2, <1>3, <2>1, <2>2 DEF IInv, NamingInv
<1>10. PackageInv'
  BY <1>1, <1>2 DEF PackageInv
<1> QED
  BY <1>1, <1>4, <1>5, <1>6, <1>7, <1>8, <1>9, <1>10
  DEF IInv, EmptyInv, BindInv, RecordInv, DeliverInv

LEMMA BindKeeps == IInv /\ BindReports => IInv'
<1> SUFFICES ASSUME IInv, BindReports PROVE IInv'
  OBVIOUS
<1>1. /\ pc = "bind" /\ Go /\ pc' = "record"
      /\ m' = m /\ exported' = exported /\ doc' = doc /\ gerbers' = gerbers
      /\ archive' = archive /\ record' = record /\ blockers' = blockers
      /\ bound' = {d \in Reports : doc[d] # "absent"}
  BY Order DEF BindReports, At
<1>2. /\ pc \in AfterCoherence /\ pc \in AfterDestinations /\ pc \in AfterGenerated
      /\ pc \in AfterNaming /\ pc \in AfterFormatCpl /\ pc \in AfterPackage
  BY <1>1, StepsAre
  DEF AfterCoherence, AfterDestinations, AfterGenerated, AfterNaming,
      AfterFormatCpl, AfterPackage
<1>3. /\ pc' \notin AfterRecord /\ pc' \notin AfterDeliver
      /\ pc' \in AfterPackage /\ pc' \in AfterBind
  BY <1>1 DEF AfterPackage, AfterBind, AfterRecord, AfterDeliver
<1>4. TypeOK'
  <2>1. Range(gerbers)' = Range(gerbers) /\ Range(record)' = Range(record)
    BY <1>1
  <2> QED BY <1>1, <2>1, Progress DEF IInv, TypeOK
<1>5. CoherenceInv' /\ DestinationsInv'
  <2>1. Incoherent' = Incoherent /\ Clobbers' = Clobbers /\ Duplicates' = Duplicates
    BY <1>1 DEF Incoherent, Clobbers, Duplicates, Declared
  <2> QED BY <1>2, <2>1 DEF IInv, CoherenceInv, DestinationsInv
<1>6. GeneratedInv' /\ FormatInv' /\ PackageInv'
  BY <1>1, <1>2 DEF IInv, GeneratedInv, FormatInv, PackageInv
<1>7. NamingInv'
  <2>1. /\ \A n : Claims(n)' = Claims(n)
        /\ Claimed' = Claimed /\ NamingProblem' = NamingProblem
    BY <1>1, SameNaming
  <2> QED BY <1>1, <1>2, <2>1 DEF IInv, NamingInv
<1>8. BindInv'
  BY <1>1 DEF BindInv
<1> QED
  BY <1>3, <1>4, <1>5, <1>6, <1>7, <1>8
  DEF IInv, EmptyInv, RecordInv, DeliverInv

-----------------------------------------------------------------------------
(* The record.                                                             *)

\* A staged gerber goes into the gerber directory, a report into the reports
\* directory, and anything else to the file of its role.
LEMMA DestinationOf ==
  ASSUME TypeOK, NEW s \in DOMAIN Destined
  PROVE  /\ s \in StagedNow
         /\ \/ /\ s \in Name /\ m.dirs["gerber_dir"] # None
               /\ Destined[s] = InDir("gerber_dir", s)
            \/ /\ s \in Reports /\ m.dirs["reports_dir"] # None
               /\ Destined[s] = InDir("reports_dir", s)
            \/ /\ s \in {"cpl", "bom", "archive"} /\ m.files[s] # None
               /\ Destined[s] = m.files[s]
<1>1. s \in StagedNow
  BY DEF Destined
<1>2. /\ DOMAIN gerbers \subseteq Name
      /\ Name \cap (Documents \cup FileRole) = {}
  BY PipelineAssumption DEF TypeOK
<1>3. CASE s \in DOMAIN gerbers
  <2>1. s \in Name /\ s \notin Reports
    BY <1>2, <1>3 DEF Documents, Reports
  <2> QED BY <1>1, <1>3, <2>1 DEF Destined
<1>4. CASE s \in Reports
  <2>1. s \notin DOMAIN gerbers
    BY <1>2, <1>4 DEF Documents, Reports
  <2> QED BY <1>1, <1>4, <2>1 DEF Destined
<1>5. CASE s \notin DOMAIN gerbers /\ s \notin Reports
  <2>1. s \in {"cpl", "bom", "archive"}
    BY <1>1, <1>5 DEF StagedNow, Documents, Reports
  <2> QED BY <1>1, <1>5, <2>1 DEF Destined
<1> QED BY <1>3, <1>4, <1>5

LEMMA DestinationType ==
  ASSUME TypeOK, NEW s \in DOMAIN Destined
  PROVE  s \in Leaf /\ Destined[s] \in Place
<1>1. m \in Manifest
  BY PipelineAssumption DEF TypeOK
<1>2. m.dirs \in [DirRole -> Dir \cup {None}] /\ m.files \in [FileRole -> Place \cup {None}]
  BY <1>1 DEF Manifest
<1>3. CASE s \in Name /\ m.dirs["gerber_dir"] # None
           /\ Destined[s] = InDir("gerber_dir", s)
  BY <1>2, <1>3 DEF InDir, Place, Leaf, DirRole
<1>4. CASE s \in Reports /\ m.dirs["reports_dir"] # None
           /\ Destined[s] = InDir("reports_dir", s)
  BY <1>2, <1>4 DEF InDir, Place, Leaf, DirRole, Reports, Documents
<1>5. CASE s \in {"cpl", "bom", "archive"} /\ m.files[s] # None
           /\ Destined[s] = m.files[s]
  BY <1>2, <1>5 DEF Leaf, FileRole, Documents
<1> QED BY <1>3, <1>4, <1>5, DestinationOf

LEMMA RecordKeeps == IInv /\ Record => IInv'
<1> SUFFICES ASSUME IInv, Record PROVE IInv'
  OBVIOUS
<1> DEFINE problem == DOMAIN Destined # StagedNow \/ ~IsInjective(Destined)
<1>1. /\ pc = "record"
      /\ m' = m /\ exported' = exported /\ doc' = doc /\ gerbers' = gerbers
      /\ archive' = archive /\ bound' = bound
      /\ blockers' \in BOOLEAN /\ (blockers => blockers')
  BY DEF Record, Unless, BlockIf, At, IInv, TypeOK
<1>2. Range(gerbers)' = Range(gerbers)
  BY <1>1
<1>3. CASE problem
  <2>1. pc' = "refused" /\ record' = record
    BY <1>3 DEF Record, Unless
  <2>2. Range(record)' = Range(record)
    BY <2>1
  <2>3. TypeOK'
    BY <1>1, <1>2, <2>1, <2>2 DEF IInv, TypeOK
  <2> QED BY <2>1, <2>3, RefusedKeeps
<1>4. CASE ~problem
  <2>1. Go
    BY <1>4 DEF Record, Unless
  <2>2. pc' = "deliver" /\ record' = Destined
    BY <1>1, <2>1, Order DEF Record
  <2>3. /\ pc \in AfterCoherence /\ pc \in AfterDestinations /\ pc \in AfterGenerated
        /\ pc \in AfterNaming /\ pc \in AfterFormatCpl /\ pc \in AfterPackage
        /\ pc \in AfterBind
    BY <1>1
    DEF AfterCoherence, AfterDestinations, AfterGenerated, AfterNaming,
        AfterFormatCpl, AfterPackage, AfterBind
  <2>4. pc' \notin AfterDeliver /\ pc' \in AfterPackage /\ pc' \in AfterBind
    BY <2>2 DEF AfterPackage, AfterBind, AfterRecord, AfterDeliver
  <2>5. TypeOK'
    <3>1. DOMAIN record' \subseteq Leaf /\ Range(record') \subseteq Place
      <4>1. \A s \in DOMAIN Destined : s \in Leaf /\ Destined[s] \in Place
        BY DestinationType DEF IInv
      <4> QED BY <2>2, <4>1 DEF Range
    <3>2. Range(record)' = Range(record')
      BY DEF Range
    <3> QED BY <1>1, <1>2, <2>1, <3>1, <3>2, Progress DEF IInv, TypeOK
  <2>6. CoherenceInv' /\ DestinationsInv'
    <3>1. Incoherent' = Incoherent /\ Clobbers' = Clobbers /\ Duplicates' = Duplicates
      BY <1>1 DEF Incoherent, Clobbers, Duplicates, Declared
    <3> QED BY <2>3, <3>1 DEF IInv, CoherenceInv, DestinationsInv
  <2>7. GeneratedInv' /\ FormatInv' /\ PackageInv' /\ BindInv'
    BY <1>1, <2>3 DEF IInv, GeneratedInv, FormatInv, PackageInv, BindInv
  <2>8. NamingInv'
    <3>1. /\ \A n : Claims(n)' = Claims(n)
          /\ Claimed' = Claimed /\ NamingProblem' = NamingProblem
      BY <1>1, SameNaming
    <3> QED BY <1>1, <2>3, <3>1 DEF IInv, NamingInv
  <2>9. RecordInv'
    <3>1. StagedNow' = StagedNow /\ Destined' = Destined
      BY <1>1, SameDestinations
    <3>2. IsInjective(Destined)' = IsInjective(Destined)
      BY <3>1
    <3> QED BY <1>4, <2>2, <3>1, <3>2 DEF RecordInv
  <2> QED
    BY <2>4, <2>5, <2>6, <2>7, <2>8, <2>9 DEF IInv, EmptyInv, DeliverInv
<1> QED BY <1>3, <1>4

LEMMA DeliverKeeps == IInv /\ Deliver => IInv'
<1> SUFFICES ASSUME IInv, Deliver PROVE IInv'
  OBVIOUS
<1>1. /\ UNCHANGED data /\ blockers' = blockers /\ pc = "deliver"
      /\ blockers' \in BOOLEAN /\ pc' \in {"ready", "refused"}
      /\ pc' = "ready" =>
           ~blockers' /\ m.files.fabrication_manifest \notin Range(record)
  BY DEF Deliver, data, At, IInv, TypeOK
<1>2. /\ pc \in AfterCoherence /\ pc \in AfterDestinations /\ pc \in AfterGenerated
      /\ pc \in AfterNaming /\ pc \in AfterFormatCpl /\ pc \in AfterPackage
      /\ pc \in AfterBind /\ pc \in AfterRecord
  BY <1>1
  DEF AfterCoherence, AfterDestinations, AfterGenerated, AfterNaming,
      AfterFormatCpl, AfterPackage, AfterBind, AfterRecord
<1>3. pc' \notin Step
  BY <1>1, StepsAre
<1> QED BY <1>1, <1>2, <1>3, CheckKeeps DEF AfterDeliver

LEMMA AbortKeeps == IInv /\ Abort => IInv'
<1> SUFFICES ASSUME IInv, Abort PROVE IInv'
  OBVIOUS
<1>1. Range(gerbers)' = Range(gerbers) /\ Range(record)' = Range(record)
  BY DEF Abort
<1>2. TypeOK' /\ pc' = "refused"
  BY <1>1 DEF Abort, IInv, TypeOK
<1> QED BY <1>2, RefusedKeeps

LEMMA NextIInv == IInv /\ [Next]_vars => IInv'
<1> SUFFICES ASSUME IInv, [Next]_vars PROVE IInv'
  OBVIOUS
<1>1. CASE CheckCoherence
  BY <1>1, CoherenceKeeps
<1>2. CASE CheckDestinations
  BY <1>2, DestinationsKeep
<1>3. CASE Isolate \/ DeclareOutputs
  BY <1>3, IsolateKeeps
<1>4. CASE \E d \in Documents : RunDocument(d)
  BY <1>4, DocumentKeeps
<1>5. CASE \E s \in {"gerbers", "drill"} : RunExport(s)
  BY <1>5, ExportKeeps
<1>6. CASE CheckGenerated
  BY <1>6, GeneratedKeeps
<1>7. CASE NameForFab
  BY <1>7, NamingKeeps
<1>8. CASE \E d \in {"cpl", "bom"} : LeaveFormat(d) \/ RefuseFormat(d) \/ Format(d)
  BY <1>8, LeaveKeeps, FormatKeeps
<1>9. CASE Package
  BY <1>9, PackageKeeps
<1>10. CASE BindReports
  BY <1>10, BindKeeps
<1>11. CASE Record
  BY <1>11, RecordKeeps
<1>12. CASE Deliver
  BY <1>12, DeliverKeeps
<1>13. CASE Abort
  BY <1>13, AbortKeeps
<1>14. CASE UNCHANGED vars
  <2>1. /\ UNCHANGED data /\ pc' = pc /\ blockers' = blockers
        /\ blockers \in BOOLEAN /\ pc \in Step \cup {"ready", "refused"}
    BY <1>14 DEF vars, data, IInv, TypeOK
  <2>2. pc \in AfterDeliver =>
          ~blockers /\ m.files.fabrication_manifest \notin Range(record)
    BY DEF IInv, DeliverInv
  <2> QED BY <2>1, <2>2, CheckKeeps
<1> QED
  BY <1>1, <1>2, <1>3, <1>4, <1>5, <1>6, <1>7, <1>8, <1>9, <1>10, <1>11, <1>12,
     <1>13, <1>14 DEF Next

(* What each step establishes still holds when the build ends.             *)
THEOREM Invariance == Spec => []IInv
BY InitIInv, NextIInv, PTL DEF Spec

(* Documents, staged files, archive and record keep their types; what is   *)
(* archived is staged, and what is staged was exported.                    *)
THEOREM Typing == Spec => []TypeOK
BY Invariance, PTL DEF IInv

-----------------------------------------------------------------------------
(* What a build that installs has established.                             *)

LEMMA Established ==
  ASSUME IInv, pc = "ready"
  PROVE  /\ ~blockers /\ ~Incoherent /\ ~Clobbers /\ ~Duplicates
         /\ \A d \in Documents : doc[d] # "absent"
         /\ IF m.named
              THEN /\ ~NamingProblem
                   /\ DOMAIN gerbers = Claimed
                   /\ \A n \in Claimed : gerbers[n] \in Claims(n)
              ELSE /\ DOMAIN gerbers = exported
                   /\ \A f \in exported : gerbers[f] = f
         /\ m.registry => doc["cpl"] = "oriented"
         /\ archive = DOMAIN gerbers /\ archive \subseteq m.approved
         /\ bound = {d \in Reports : doc[d] # "absent"}
         /\ record = Destined /\ DOMAIN record = StagedNow /\ IsInjective(record)
         /\ m.files.fabrication_manifest \notin Range(record)
<1>1. pc \in AfterDeliver /\ pc \in AfterRecord /\ pc \in AfterBind
      /\ pc \in AfterPackage /\ pc \in AfterFormatCpl /\ pc \in AfterNaming
      /\ pc \in AfterGenerated /\ pc \in AfterDestinations /\ pc \in AfterCoherence
  BY DEF AfterCoherence, AfterDestinations, AfterGenerated, AfterNaming,
         AfterFormatCpl, AfterPackage, AfterBind, AfterRecord, AfterDeliver
<1>2. /\ ~blockers /\ m.files.fabrication_manifest \notin Range(record)
  BY <1>1 DEF IInv, DeliverInv
<1> QED
  BY <1>1, <1>2
  DEF IInv, CoherenceInv, DestinationsInv, GeneratedInv, NamingInv, FormatInv,
      PackageInv, BindInv, RecordInv

\* A name that several files claim is a problem, so each claimed name has one.
LEMMA OneClaim ==
  ASSUME TypeOK, ~NamingProblem, NEW n \in Claimed, NEW f \in Claims(n), NEW g \in Claims(n)
  PROVE  f = g
<1> SUFFICES ASSUME f # g PROVE FALSE
  OBVIOUS
<1>1. IsFiniteSet(Claims(n))
  <2>1. Claims(n) \subseteq File
    BY DEF Claims, TypeOK
  <2> QED BY <2>1, PipelineAssumption, FS_Subset
<1>2. IsFiniteSet({f, g}) /\ Cardinality({f, g}) = 2
  <2>1. IsFiniteSet({f}) /\ Cardinality({f}) = 1
    BY FS_Singleton
  <2>2. {f, g} = {f} \cup {g} /\ g \notin {f}
    OBVIOUS
  <2>3. IsFiniteSet({f} \cup {g}) /\ Cardinality({f} \cup {g}) = Cardinality({f}) + 1
    BY <2>1, <2>2, FS_AddElement
  <2> QED BY <2>1, <2>2, <2>3
<1>3. Cardinality({f, g}) <= Cardinality(Claims(n)) /\ Cardinality(Claims(n)) \in Nat
  <2>1. {f, g} \subseteq Claims(n)
    OBVIOUS
  <2> QED BY <1>1, <2>1, FS_Subset, FS_CardinalityType
<1>4. Cardinality(Claims(n)) > 1
  BY <1>2, <1>3
<1> QED
  BY <1>4 DEF NamingProblem

(* Of a build that installs every export file is excluded or shipped under *)
(* its own name, which stands for it alone.                                *)
THEOREM NothingLost == Spec => []NothingExportedIsLost
<1>1. IInv => NothingExportedIsLost
  <2> SUFFICES ASSUME IInv, pc = "ready", NEW f \in exported
               PROVE  IF m.named
                        THEN m.row[f] # Excluded => <<m.ship[m.row[f]], f>> \in Shipped
                        ELSE <<f, f>> \in Shipped
    BY DEF NothingExportedIsLost
  <2>1. CASE ~m.named
    <3>1. f \in archive /\ gerbers[f] = f
      BY <2>1, Established
    <3> QED BY <2>1, <3>1 DEF Shipped
  <2>2. CASE m.named /\ m.row[f] # Excluded
    <3>1. /\ ~NamingProblem /\ archive = Claimed
          /\ \A n \in Claimed : gerbers[n] \in Claims(n)
      BY <2>2, Established
    <3>2. m \in Manifest /\ f \in File
      BY PipelineAssumption DEF IInv, TypeOK
    <3>3. m.row[f] \in Row
      <4>1. m.row[f] \in Row \cup {Excluded, NoRow}
        BY <3>2 DEF Manifest
      <4>2. m.row[f] # NoRow
        BY <3>1 DEF NamingProblem
      <4> QED BY <2>2, <4>1, <4>2
    <3> DEFINE n == m.ship[m.row[f]]
    <3>4. n \in Name
      BY <3>2, <3>3 DEF Manifest
    <3>5. f \in Claims(n) /\ n \in Claimed
      BY <3>3, <3>4 DEF Claims, Claimed
    <3>6. gerbers[n] = f
      <4>1. gerbers[n] \in Claims(n)
        BY <3>1, <3>5
      <4> HIDE DEF n
      <4> QED BY <3>1, <3>5, <4>1, OneClaim DEF IInv
    <3> QED BY <2>2, <3>1, <3>5, <3>6 DEF Shipped
  <2> QED BY <2>1, <2>2
<1> QED BY <1>1, Invariance, PTL

(* A build that installs has every document, two bound reports, and a file *)
(* for every row the fab reads.                                            *)
THEOREM SetIsComplete == Spec => []InstalledSetIsComplete
<1>1. IInv => InstalledSetIsComplete
  <2> SUFFICES ASSUME IInv, pc = "ready"
               PROVE  /\ \A d \in Documents : doc[d] # "absent"
                      /\ bound = Reports
                      /\ m.named => \A r \in Row : m.ship[r] \in archive
    BY DEF InstalledSetIsComplete
  <2>1. \A d \in Documents : doc[d] # "absent"
    BY Established
  <2>2. bound = Reports
    <3>1. Reports \subseteq Documents /\ bound = {d \in Reports : doc[d] # "absent"}
      BY Established DEF Reports, Documents
    <3> QED BY <2>1, <3>1
  <2>3. m.named => \A r \in Row : m.ship[r] \in archive
    <3>1. m.named => ~NamingProblem /\ archive = Claimed
      BY Established
    <3> QED BY <3>1 DEF NamingProblem
  <2> QED BY <2>1, <2>2, <2>3
<1> QED BY <1>1, Invariance, PTL

(* A reviewed orientation registry was applied to what is installed.       *)
THEOREM AnglesAreReviewed == Spec => []ReviewedAnglesShip
<1>1. IInv => ReviewedAnglesShip
  BY Established DEF ReviewedAnglesShip
<1> QED BY <1>1, Invariance, PTL

(* The installed gerbers, the archive and the allowlist agree.             *)
THEOREM ArchiveAgrees == Spec => []ArchiveIsTheInstalledSet
<1>1. IInv => ArchiveIsTheInstalledSet
  <2> SUFFICES ASSUME IInv, pc = "ready"
               PROVE  /\ archive = DOMAIN gerbers \cap DOMAIN record
                      /\ archive \subseteq m.approved
    BY DEF ArchiveIsTheInstalledSet
  <2>1. archive = DOMAIN gerbers /\ DOMAIN record = StagedNow
    BY Established
  <2>2. DOMAIN gerbers \subseteq StagedNow
    BY DEF StagedNow
  <2> QED BY <2>1, <2>2, Established
<1> QED BY <1>1, Invariance, PTL

(* No two artifacts of the record install to one place.                    *)
THEOREM RecordSeparates == Spec => []RecordIsOneToOne
<1>1. IInv => RecordIsOneToOne
  BY Established DEF RecordIsOneToOne, IsInjective
<1> QED BY <1>1, Invariance, PTL

(* Neither what is written nor what is pruned is a design input or the     *)
(* committed verdict: a directory that is pruned holds none of them, so    *)
(* nothing written into it is one either.                                  *)
THEOREM InputsAreSafe == Spec => []InputsSurvive
<1>1. IInv => InputsSurvive
  <2> DEFINE written == Range(record) \cup {m.files.fabrication_manifest}
             kept == m.inputs \cup ({m.files.validation_report} \ {None})
             verdict == {m.files[r] : r \in Declared \cap {"validation_report"}}
  <2> SUFFICES ASSUME IInv, pc = "ready"
               PROVE  /\ written \cap kept = {}
                      /\ \A p \in kept, d \in DirRole : p.dir # m.dirs[d]
    BY DEF InputsSurvive
  <2>1. /\ \A r \in Declared : m.files[r] \notin m.inputs
        /\ \A r \in Declared \ {"validation_report"} : m.files[r] \notin verdict
        /\ \A d \in DirRole, p \in m.inputs \cup verdict : p.dir # m.dirs[d]
    BY Established DEF Clobbers
  <2>2. kept = m.inputs \cup verdict
    BY DEF Declared, FileRole
  <2>3. \A r \in Declared \ {"validation_report"} : m.files[r] \notin kept
    <3> HIDE DEF kept, verdict
    <3> QED BY <2>1, <2>2
  <2>4. m.files.fabrication_manifest \notin kept
    <3>1. "fabrication_manifest" \in Declared \ {"validation_report"}
      BY PipelineAssumption DEF IInv, TypeOK, Declared, FileRole
    <3> HIDE DEF kept
    <3> QED BY <2>3, <3>1
  <2>5. \A p \in kept, d \in DirRole : p.dir # m.dirs[d]
    <3> HIDE DEF kept, verdict
    <3> QED BY <2>1, <2>2
  <2>6. ASSUME NEW s \in DOMAIN record PROVE record[s] \notin kept
    <3>1. record = Destined
      BY Established
    <3>2. CASE \E d \in DirRole : record[s] = InDir(d, s)
      <4>1. PICK d \in DirRole : record[s] = InDir(d, s)
        BY <3>2
      <4>2. record[s].dir = m.dirs[d]
        BY <4>1 DEF InDir
      <4> HIDE DEF kept
      <4> QED BY <2>5, <4>2
    <3>3. CASE /\ s \in {"cpl", "bom", "archive"} /\ m.files[s] # None
               /\ record[s] = m.files[s]
      <4>1. s \in Declared \ {"validation_report"}
        BY <3>3 DEF Declared, FileRole
      <4> HIDE DEF kept
      <4> QED BY <2>3, <3>3, <4>1
    <3> QED BY <3>1, <3>2, <3>3, DestinationOf DEF IInv, DirRole
  <2>7. written \cap kept = {}
    <3>1. \A x \in written : x \notin kept
      BY <2>4, <2>6 DEF Range
    <3> QED BY <3>1
  <2> QED BY <2>5, <2>7
<1> QED BY <1>1, Invariance, PTL
=============================================================================
