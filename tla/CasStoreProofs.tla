--------------------------- MODULE CasStoreProofs ---------------------------
(***************************************************************************)
(* Proofs about CasStore, for any number of writers, any files and any     *)
(* number of power losses.                                                 *)
(***************************************************************************)
EXTENDS CasStore, TLAPS

Whole == Files \cup {Layout, Commit}

\* Places of a writer that has made the package directory.
Inside == Running \ {"stage", "publish", "mkdir"}

\* What the owner has put into the package and synced, at each place.
Progress(w) ==
    /\ at[w] = "layout" => names = {}
    /\ at[w] = "syncLayout" => names = {Layout}
    /\ at[w] \in {"link", "syncFiles"} => Layout \in durable /\ Commit \notin names
    /\ at[w] = "syncFiles" => Files \subseteq names
    /\ at[w] \in {"commit", "syncCommit"} => Files \cup {Layout} \subseteq durable /\ checked
    /\ at[w] = "commit" => Commit \notin names
    /\ at[w] = "syncCommit" => Commit \in names
    /\ at[w] = "syncRoot" => names = durable /\ Readable(durable) /\ checked

\* The payload is linked behind a durable layout marker, or renamed whole; the
\* commit marker comes after everything else is durable and compared.
Order ==
    /\ Commit \in names => Files \cup {Layout} \subseteq durable /\ checked
    /\ names \cap Files # {} =>
          Layout \in durable \/ (names = Files /\ durable = Files /\ checked)

Absent == ~present => names = {} /\ ~entered /\ owner = None

Owned ==
    /\ \A w \in Writers : at[w] \in Inside <=> owner = w
    /\ owner # None => present
    /\ \A w \in Writers : owner = w => Progress(w)

Staged == \A w \in Writers : at[w] = "publish" => staged[w] = Files

\* A published package is whole, and nobody is at work in it.
Settled == acked => names = durable /\ owner = None

IInv == TypeOK /\ Absent /\ Order /\ Owned /\ Staged /\ PublishedSurvives /\ Settled

\* Before any call there is no package and no writer.
LEMMA InitInv == Init => IInv
<1> SUFFICES ASSUME Init PROVE IInv
  OBVIOUS
<1>1. TypeOK
  BY DEF Init, TypeOK, Places
<1>2. Absent /\ Order /\ Staged /\ PublishedSurvives /\ Settled
  BY DEF Init, Absent, Order, Staged, PublishedSurvives, Settled
<1>3. Owned
  BY CasAssumption DEF Init, Owned, Inside, Running
<1>4. QED
  BY <1>1, <1>2, <1>3 DEF IInv

-----------------------------------------------------------------------------
(* Steps outside the package directory                                     *)

\* A step that leaves the package alone, and moves one writer between places
\* outside it, keeps the invariant.
LEMMA OutsideStep ==
    ASSUME IInv, NEW w \in Writers, NEW place \in Places,
           Goes(w, place), UNCHANGED <<renames, package, checked, acked>>,
           at[w] \notin Inside, place \notin Inside, owner' = owner,
           staged' \in [Writers -> SUBSET Files],
           \A v \in Writers \ {w} : staged'[v] = staged[v],
           place = "publish" => staged'[w] = Files
    PROVE  IInv'
<1> USE DEF IInv, package
<1>1. TypeOK'
  BY DEF TypeOK, Goes
<1>2. Absent' /\ Order' /\ PublishedSurvives' /\ Settled'
  BY DEF Absent, Order, PublishedSurvives, Settled, Readable
<1>3. \A v \in Writers : at'[v] = IF v = w THEN place ELSE at[v]
  BY DEF Goes, TypeOK
<1>4. owner # w
  BY DEF Owned
<1>5. Owned'
  BY <1>3, <1>4 DEF Owned, Progress, Readable
<1>6. Staged'
  BY <1>3 DEF Staged
<1>7. QED
  BY <1>1, <1>2, <1>5, <1>6

\* A call begins outside the package, whether it stages, finds or gives up.
LEMMA BeginStep == ASSUME IInv, NEW w \in Writers, Begin(w) PROVE IInv'
<1>1. PICK place \in {"stage", "found", "failed"} : Goes(w, place)
  BY DEF Begin
<1>2. staged' \in [Writers -> SUBSET Files] /\ \A v \in Writers \ {w} : staged'[v] = staged[v]
  BY DEF Begin, IInv, TypeOK
<1>3. UNCHANGED <<renames, package, checked, acked>> /\ owner' = owner /\ at[w] \notin Running
  BY DEF Begin
<1>4. at[w] \notin Inside /\ place \notin Inside /\ place \in Places /\ place # "publish"
  BY <1>3 DEF Inside, Running, Places
<1>5. QED
  BY <1>1, <1>2, <1>3, <1>4, OutsideStep

\* A staged writer has every file durable.
LEMMA StageStep == ASSUME IInv, NEW w \in Writers, Stage(w) PROVE IInv'
<1>1. staged' \in [Writers -> SUBSET Files] /\ \A v \in Writers \ {w} : staged'[v] = staged[v]
      /\ staged'[w] = Files
  BY DEF Stage, IInv, TypeOK
<1>2. at[w] \notin Inside /\ "publish" \notin Inside /\ "publish" \in Places
  BY DEF Stage, Inside, Running, Places
<1>3. QED
  BY <1>1, <1>2, OutsideStep DEF Stage

\* Falling back moves a writer that owns nothing.
LEMMA FallBackStep == ASSUME IInv, NEW w \in Writers, FallBack(w) PROVE IInv'
<1>1. staged' \in [Writers -> SUBSET Files] /\ \A v \in Writers \ {w} : staged'[v] = staged[v]
  BY DEF FallBack, IInv, TypeOK
<1>2. at[w] \notin Inside /\ "mkdir" \notin Inside /\ "mkdir" \in Places
  BY DEF FallBack, Inside, Running, Places
<1>3. QED
  BY <1>1, <1>2, OutsideStep DEF FallBack

-----------------------------------------------------------------------------
(* Taking the package directory                                            *)

\* A rename puts a staged, hence durable and compared, set of files in place.
LEMMA RenameStep == ASSUME IInv, NEW w \in Writers, Rename(w) PROVE IInv'
<1> USE DEF IInv
<1>1. names = {} /\ ~entered /\ owner = None /\ ~acked /\ staged[w] = Files
  BY DEF Rename, Absent, Staged, PublishedSurvives
<1>2. names' = Files /\ durable' = Files /\ present' /\ checked' /\ owner' = w
      /\ acked' = acked /\ entered' = entered
  BY <1>1 DEF Rename
<1>3. TypeOK'
  BY <1>2 DEF TypeOK, Rename, Goes, Places, Running
<1>4. Absent' /\ PublishedSurvives' /\ Settled'
  BY <1>1, <1>2 DEF Absent, PublishedSurvives, Settled
<1>5. Order'
  BY <1>2, CasAssumption DEF Order
<1>6. \A v \in Writers : at'[v] = IF v = w THEN "syncRoot" ELSE at[v]
  BY DEF Rename, Goes, TypeOK
<1>7. Owned'
  <2>1. \A v \in Writers : at'[v] \in Inside <=> owner' = v
    BY <1>1, <1>2, <1>6, CasAssumption DEF Owned, Inside, Running
  <2>2. \A v \in Writers : owner' = v => Progress(v)'
    BY <1>2, <1>6 DEF Progress, Readable
  <2>3. QED
    BY <1>2, <2>1, <2>2 DEF Owned
<1>8. Staged'
  BY <1>6 DEF Staged, Rename
<1>9. QED
  BY <1>3, <1>4, <1>5, <1>7, <1>8

\* An exclusive mkdir makes its writer the owner of an empty package.
LEMMA MakeTargetStep == ASSUME IInv, NEW w \in Writers, MakeTarget(w) PROVE IInv'
<1> USE DEF IInv
<1>1. names = {} /\ ~entered /\ owner = None /\ ~acked
  BY DEF MakeTarget, Absent, PublishedSurvives
<1>2. TypeOK'
  BY DEF TypeOK, MakeTarget, Goes, Places, Running
<1>3. Absent' /\ PublishedSurvives' /\ Settled' /\ Order'
  BY <1>1 DEF MakeTarget, Absent, PublishedSurvives, Settled, Order
<1>4. \A v \in Writers : at'[v] = IF v = w THEN "layout" ELSE at[v]
  BY DEF MakeTarget, Goes, TypeOK
<1>5. Owned'
  <2>1. \A v \in Writers : at'[v] \in Inside <=> owner' = v
    BY <1>1, <1>4, CasAssumption DEF MakeTarget, Owned, Inside, Running
  <2>2. \A v \in Writers : owner' = v => Progress(v)'
    BY <1>1, <1>4 DEF MakeTarget, Progress
  <2>3. QED
    BY <2>1, <2>2 DEF MakeTarget, Owned
<1>6. Staged'
  BY <1>4 DEF Staged, MakeTarget
<1>7. QED
  BY <1>2, <1>3, <1>5, <1>6

-----------------------------------------------------------------------------
(* Steps of the owner inside it                                            *)

\* Only the owner stands inside the package, and nothing is published yet.
LEMMA OwnerInside ==
    ASSUME IInv, NEW w \in Writers, at[w] \in Inside
    PROVE  owner = w /\ owner # None /\ present /\ Progress(w) /\ ~acked
  BY CasAssumption DEF IInv, Owned, Settled

\* A step that keeps the owner inside keeps Owned, if it keeps up its progress.
LEMMA InsideStep ==
    ASSUME IInv, NEW w \in Writers, NEW place \in Inside, at[w] \in Inside,
           Goes(w, place), present' = present, owner' = owner, staged' = staged,
           Progress(w)'
    PROVE  Owned' /\ Staged' /\ at' \in [Writers -> Places]
<1>1. owner = w /\ present
  BY OwnerInside
<1>2. \A v \in Writers : at'[v] = IF v = w THEN place ELSE at[v]
  BY DEF Goes, IInv, TypeOK
<1>3. Owned'
  BY <1>1, <1>2 DEF Owned, IInv
<1>4. Staged'
  BY <1>2 DEF Staged, IInv, Inside, Running
<1>5. at' \in [Writers -> Places]
  BY DEF Goes, IInv, TypeOK, Inside, Places
<1>6. QED
  BY <1>3, <1>4, <1>5

\* The layout marker is the first name in a package.
LEMMA WriteLayoutStep == ASSUME IInv, NEW w \in Writers, WriteLayout(w) PROVE IInv'
<1> USE DEF WriteLayout, Puts
<1>1. at[w] \in Inside /\ at[w] = "layout" /\ "syncLayout" \in Inside
  BY DEF Inside, Running
<1>2. present /\ names = {} /\ ~acked
  BY <1>1, OwnerInside DEF Progress
<1>3. names' = {Layout} /\ durable' = {} /\ at'[w] = "syncLayout"
  BY <1>2 DEF Goes, IInv, TypeOK
<1>4. Owned' /\ Staged' /\ at' \in [Writers -> Places]
  <2>1. Progress(w)'
    BY <1>3 DEF Progress
  <2>2. QED
    BY <1>1, <2>1, InsideStep
<1>5. TypeOK'
  BY <1>3, <1>4 DEF IInv, TypeOK
<1>6. Absent' /\ PublishedSurvives' /\ Settled'
  BY <1>2 DEF Absent, PublishedSurvives, Settled
<1>7. Order'
  BY <1>3, CasAssumption DEF Order
<1>8. QED
  BY <1>4, <1>5, <1>6, <1>7 DEF IInv

\* After the sync the marker survives whatever follows.
LEMMA SyncLayoutStep == ASSUME IInv, NEW w \in Writers, SyncLayout(w) PROVE IInv'
<1> USE DEF SyncLayout, Syncs
<1>1. at[w] \in Inside /\ at[w] = "syncLayout" /\ "link" \in Inside
  BY DEF Inside, Running
<1>2. present /\ names = {Layout} /\ ~acked
  BY <1>1, OwnerInside DEF Progress
<1>3. names' = {Layout} /\ durable' = {Layout} /\ at'[w] = "link"
  BY <1>2 DEF Goes, IInv, TypeOK
<1>4. Owned' /\ Staged' /\ at' \in [Writers -> Places]
  <2>1. Progress(w)'
    BY <1>3, CasAssumption DEF Progress
  <2>2. QED
    BY <1>1, <2>1, InsideStep
<1>5. TypeOK'
  BY <1>3, <1>4 DEF IInv, TypeOK
<1>6. Absent' /\ PublishedSurvives' /\ Settled'
  BY <1>2 DEF Absent, PublishedSurvives, Settled
<1>7. Order'
  BY <1>3, CasAssumption DEF Order
<1>8. QED
  BY <1>4, <1>5, <1>6, <1>7 DEF IInv

\* A link adds a file behind a durable marker.
LEMMA LinkStep == ASSUME IInv, NEW w \in Writers, Link(w) PROVE IInv'
<1> PICK f \in Files : Puts(w, "link", f, "link")
  BY DEF Link
<1> USE DEF Puts
<1>1. at[w] \in Inside /\ at[w] = "link" /\ "link" \in Inside
  BY DEF Inside, Running
<1>2. present /\ Layout \in durable /\ Commit \notin names /\ ~acked
  BY <1>1, OwnerInside DEF Progress
<1>3. Commit \notin names' /\ Layout \in durable' /\ at'[w] = "link"
  BY <1>2, CasAssumption DEF Goes, IInv, TypeOK
<1>4. Owned' /\ Staged' /\ at' \in [Writers -> Places]
  <2>1. Progress(w)'
    BY <1>3 DEF Progress
  <2>2. QED
    BY <1>1, <2>1, InsideStep
<1>5. TypeOK'
  BY <1>4 DEF IInv, TypeOK
<1>6. Absent' /\ PublishedSurvives' /\ Settled'
  BY <1>2 DEF Absent, PublishedSurvives, Settled
<1>7. Order'
  BY <1>3 DEF Order
<1>8. QED
  BY <1>4, <1>5, <1>6, <1>7 DEF IInv

\* With all files linked only their sync is left.
LEMMA AllLinkedStep == ASSUME IInv, NEW w \in Writers, AllLinked(w) PROVE IInv'
<1> USE DEF AllLinked, Proceeds, package
<1>1. at[w] \in Inside /\ at[w] = "link" /\ "syncFiles" \in Inside
  BY DEF Inside, Running
<1>2. present /\ Layout \in durable /\ Commit \notin names /\ ~acked
  BY <1>1, OwnerInside DEF Progress
<1>3. at'[w] = "syncFiles"
  BY DEF Goes, IInv, TypeOK
<1>4. Owned' /\ Staged' /\ at' \in [Writers -> Places]
  <2>1. Progress(w)'
    BY <1>2, <1>3 DEF Progress
  <2>2. QED
    BY <1>1, <2>1, InsideStep
<1>5. TypeOK'
  BY <1>4 DEF IInv, TypeOK
<1>6. Absent' /\ PublishedSurvives' /\ Settled' /\ Order'
  BY <1>2 DEF Absent, PublishedSurvives, Settled, Order, IInv
<1>7. QED
  BY <1>4, <1>5, <1>6 DEF IInv

\* The files are durable and compared before the commit marker exists.
LEMMA SyncFilesStep == ASSUME IInv, NEW w \in Writers, SyncFiles(w) PROVE IInv'
<1> USE DEF SyncFiles
<1>1. at[w] \in Inside /\ at[w] = "syncFiles" /\ "commit" \in Inside
  BY DEF Inside, Running
<1>2. present /\ Layout \in names /\ Files \subseteq names /\ Commit \notin names /\ ~acked
  BY <1>1, OwnerInside DEF Progress, IInv, TypeOK
<1>3. at'[w] = "commit" /\ names' = names /\ durable' = names /\ checked'
  BY DEF Goes, IInv, TypeOK
<1>4. Owned' /\ Staged' /\ at' \in [Writers -> Places]
  <2>1. Progress(w)'
    BY <1>2, <1>3 DEF Progress
  <2>2. QED
    BY <1>1, <2>1, InsideStep
<1>5. TypeOK'
  BY <1>3, <1>4 DEF IInv, TypeOK
<1>6. Absent' /\ PublishedSurvives' /\ Settled' /\ Order'
  BY <1>2, <1>3 DEF Absent, PublishedSurvives, Settled, Order
<1>7. QED
  BY <1>4, <1>5, <1>6 DEF IInv

\* The commit marker is linked into a package complete but for it.
LEMMA LinkCommitStep == ASSUME IInv, NEW w \in Writers, LinkCommit(w) PROVE IInv'
<1> USE DEF LinkCommit, Puts
<1>1. at[w] \in Inside /\ at[w] = "commit" /\ "syncCommit" \in Inside
  BY DEF Inside, Running
<1>2. present /\ Files \cup {Layout} \subseteq durable /\ checked /\ ~acked
  BY <1>1, OwnerInside DEF Progress
<1>3. at'[w] = "syncCommit" /\ Commit \in names'
  BY DEF Goes, IInv, TypeOK
<1>4. Owned' /\ Staged' /\ at' \in [Writers -> Places]
  <2>1. Progress(w)'
    BY <1>2, <1>3 DEF Progress
  <2>2. QED
    BY <1>1, <2>1, InsideStep
<1>5. TypeOK'
  BY <1>4 DEF IInv, TypeOK
<1>6. Absent' /\ PublishedSurvives' /\ Settled' /\ Order'
  BY <1>2 DEF Absent, PublishedSurvives, Settled, Order
<1>7. QED
  BY <1>4, <1>5, <1>6 DEF IInv

\* The last sync inside makes all of it durable.
LEMMA SyncCommitStep == ASSUME IInv, NEW w \in Writers, SyncCommit(w) PROVE IInv'
<1> USE DEF SyncCommit, Syncs
<1>1. at[w] \in Inside /\ at[w] = "syncCommit" /\ "syncRoot" \in Inside
  BY DEF Inside, Running
<1>2. present /\ Files \cup {Layout} \subseteq durable /\ checked /\ Commit \in names /\ ~acked
  BY <1>1, OwnerInside DEF Progress
<1>3. at'[w] = "syncRoot" /\ names' = Whole /\ durable' = Whole
  BY <1>2 DEF Goes, IInv, TypeOK, Whole
<1>4. Owned' /\ Staged' /\ at' \in [Writers -> Places]
  <2>1. Progress(w)'
    BY <1>2, <1>3 DEF Progress, Readable, Whole
  <2>2. QED
    BY <1>1, <2>1, InsideStep
<1>5. TypeOK'
  BY <1>3, <1>4 DEF IInv, TypeOK, Whole
<1>6. Absent' /\ PublishedSurvives' /\ Settled' /\ Order'
  BY <1>2, <1>3 DEF Absent, PublishedSurvives, Settled, Order, Whole
<1>7. QED
  BY <1>4, <1>5, <1>6 DEF IInv

-----------------------------------------------------------------------------
(* Leaving it, and power loss                                              *)

\* A writer that leaves the package, or gives up before it, leaves no owner
\* behind.
LEMMA LeavingStep ==
    ASSUME IInv, NEW w \in Writers, NEW place \in Places \ Inside, place # "publish",
           Goes(w, place), UNCHANGED <<present, names, durable, staged, checked>>,
           owner' = IF owner = w THEN None ELSE owner
    PROVE  Owned' /\ Staged' /\ at' \in [Writers -> Places] /\ owner' \in Writers \cup {None}
<1>1. \A v \in Writers : at'[v] = IF v = w THEN place ELSE at[v]
  BY DEF Goes, IInv, TypeOK
<1>2. Owned'
  BY <1>1, CasAssumption DEF Owned, IInv, Progress, Readable
<1>3. Staged'
  BY <1>1 DEF Staged, IInv
<1>4. QED
  BY <1>2, <1>3 DEF Goes, IInv, TypeOK

\* Publication ends with a durable entry and no owner.
LEMMA SyncRootStep == ASSUME IInv, NEW w \in Writers, SyncRoot(w) PROVE IInv'
<1> USE DEF SyncRoot
<1>1. at[w] \in Inside /\ at[w] = "syncRoot" /\ "published" \in Places \ Inside
  BY DEF Inside, Running, Places
<1>2. owner = w /\ present /\ names = durable /\ Readable(durable) /\ checked
  BY <1>1, OwnerInside DEF Progress
<1>3. Owned' /\ Staged' /\ at' \in [Writers -> Places] /\ owner' \in Writers \cup {None}
  BY <1>1, <1>2, LeavingStep
<1>4. TypeOK'
  BY <1>3 DEF IInv, TypeOK
<1>5. Absent' /\ Settled'
  BY <1>2 DEF Absent, Settled
<1>6. PublishedSurvives'
  BY <1>2 DEF PublishedSurvives, Readable
<1>7. Order'
  BY DEF Order, IInv
<1>8. QED
  BY <1>3, <1>4, <1>5, <1>6, <1>7 DEF IInv

\* A writer that stops half way leaves what it has put there.
LEMMA FailStep == ASSUME IInv, NEW w \in Writers, Fail(w) PROVE IInv'
<1> USE DEF Fail, package
<1>1. "failed" \in Places \ Inside
  BY DEF Inside, Running, Places
<1>2. Owned' /\ Staged' /\ at' \in [Writers -> Places] /\ owner' \in Writers \cup {None}
  BY <1>1, LeavingStep
<1>3. TypeOK'
  BY <1>2 DEF IInv, TypeOK
<1>4. Absent' /\ Settled' /\ PublishedSurvives' /\ Order'
  BY DEF Absent, Settled, PublishedSurvives, Order, Readable, IInv
<1>5. QED
  BY <1>2, <1>3, <1>4 DEF IInv

\* A power loss keeps every durable name, so no order is inverted.
LEMMA PowerLossStep == ASSUME IInv, PowerLoss PROVE IInv'
<1> USE DEF PowerLoss
<1>1. present' \in BOOLEAN /\ (entered => present') /\ (present' => present)
  BY DEF IInv, TypeOK, Absent
<1>2. durable' = names' /\ names' \subseteq names /\ (present' => durable \subseteq names')
      /\ (~present' => names' = {})
  BY <1>1 DEF IInv, TypeOK
<1>3. at' \in [Writers -> Places]
      /\ \A w \in Writers : at'[w] \notin Inside /\ at'[w] # "publish"
  BY DEF Places, Inside, Running
<1>4. TypeOK'
  BY <1>1, <1>2, <1>3 DEF IInv, TypeOK
<1>5. Absent'
  BY <1>1, <1>2 DEF Absent
<1>6. Order'
  <2>1. CASE present'
    BY <1>2, <2>1 DEF Order, IInv, TypeOK
  <2>2. CASE ~present'
    BY <1>2, <2>2 DEF Order
  <2>3. QED
    BY <2>1, <2>2
<1>7. Owned'
  BY <1>3, CasAssumption DEF Owned
<1>8. Staged'
  BY <1>3 DEF Staged
<1>9. PublishedSurvives' /\ Settled'
  BY <1>1, <1>2 DEF PublishedSurvives, Settled, Readable, IInv
<1>10. QED
  BY <1>4, <1>5, <1>6, <1>7, <1>8, <1>9 DEF IInv

\* Every step keeps the invariant.
LEMMA StepInv == IInv /\ [Next]_vars => IInv'
<1> SUFFICES ASSUME IInv, [Next]_vars PROVE IInv'
  OBVIOUS
<1>1. ASSUME NEW w \in Writers, Begin(w) \/ Stage(w) \/ Rename(w) \/ FallBack(w) \/ MakeTarget(w)
      PROVE  IInv'
  BY <1>1, BeginStep, StageStep, RenameStep, FallBackStep, MakeTargetStep
<1>2. ASSUME NEW w \in Writers, WriteLayout(w) \/ SyncLayout(w) \/ Link(w) \/ AllLinked(w)
      PROVE  IInv'
  BY <1>2, WriteLayoutStep, SyncLayoutStep, LinkStep, AllLinkedStep
<1>3. ASSUME NEW w \in Writers, SyncFiles(w) \/ LinkCommit(w) \/ SyncCommit(w)
      PROVE  IInv'
  BY <1>3, SyncFilesStep, LinkCommitStep, SyncCommitStep
<1>4. ASSUME NEW w \in Writers, SyncRoot(w) \/ Fail(w) PROVE IInv'
  BY <1>4, SyncRootStep, FailStep
<1>5. CASE PowerLoss
  BY <1>5, PowerLossStep
<1>6. CASE UNCHANGED vars
  BY <1>6 DEF vars, package, IInv, TypeOK, Absent, Order, Owned, Progress, Staged,
              PublishedSurvives, Settled, Readable
<1>7. QED
  BY <1>1, <1>2, <1>3, <1>4, <1>5, <1>6 DEF Next

\* The invariant holds in every reachable state.
LEMMA Invariant == Spec => []IInv
<1>1. Init => IInv
  BY InitInv
<1>2. IInv /\ [Next]_vars => IInv'
  BY StepInv
<1>3. QED
  BY <1>1, <1>2, PTL DEF Spec

-----------------------------------------------------------------------------
(* Theorems                                                                *)

\* Every reachable state is typed.
THEOREM TypeCorrect == Spec => []TypeOK
<1>1. IInv => TypeOK
  BY DEF IInv
<1>2. QED
  BY <1>1, Invariant, PTL

\* What reads as a package was compared with its files, whichever way it was
\* published and wherever the power failed.
THEOREM ReadableSafe == Spec => []ReadableIsChecked
<1>1. IInv => ReadableIsChecked
  <2> SUFFICES ASSUME IInv, Readable(names) PROVE checked
    BY DEF ReadableIsChecked
  <2>1. CASE names = Files
    BY <2>1, CasAssumption DEF IInv, Order, TypeOK
  <2>2. CASE names = Files \cup {Layout, Commit}
    BY <2>2 DEF IInv, Order
  <2>3. QED
    BY <2>1, <2>2 DEF Readable
<1>2. QED
  BY <1>1, Invariant, PTL

\* A writer that has returned from publishing has made the package durable.
THEOREM PublishedSafe == Spec => []PublishedSurvives
<1>1. IInv => PublishedSurvives
  BY DEF IInv
<1>2. QED
  BY <1>1, Invariant, PTL

\* With no live owner nothing enters the package, and what a power loss takes
\* from an unreadable one does not make it readable.
LEMMA StaysBroken ==
    ASSUME IInv, [Next]_vars, present, present', owner = None, ~Readable(names)
    PROVE  ~Readable(names')
<1>1. \A w \in Writers : at[w] \notin Inside
  BY CasAssumption DEF IInv, Owned
<1>2. ASSUME NEW w \in Writers,
             \/ Begin(w) \/ Stage(w) \/ Rename(w) \/ FallBack(w) \/ MakeTarget(w)
             \/ SyncRoot(w) \/ Fail(w)
      PROVE  names' = names
  BY <1>2 DEF Begin, Stage, Rename, FallBack, MakeTarget, SyncRoot, Fail, package
<1>3. ASSUME NEW w \in Writers,
             \/ WriteLayout(w) \/ SyncLayout(w) \/ Link(w) \/ AllLinked(w)
             \/ SyncFiles(w) \/ LinkCommit(w) \/ SyncCommit(w)
      PROVE  FALSE
  <2>1. at[w] \in Inside
    BY <1>3 DEF WriteLayout, SyncLayout, Link, AllLinked, SyncFiles, LinkCommit, SyncCommit,
                Puts, Syncs, Proceeds, Inside, Running
  <2>2. QED
    BY <1>1, <2>1
<1>4. CASE PowerLoss
  <2>1. durable \subseteq names' /\ names' \subseteq names
    BY <1>4 DEF PowerLoss, IInv, TypeOK
  <2>2. CASE names' = Files
    <3>1. Layout \notin durable /\ names \cap Files # {}
      BY <2>1, <2>2, CasAssumption
    <3>2. names = Files
      BY <3>1 DEF IInv, Order
    <3>3. QED
      BY <3>2 DEF Readable
  <2>3. CASE names' = Files \cup {Layout, Commit}
    <3>1. names = Files \cup {Layout, Commit}
      BY <2>1, <2>3 DEF IInv, TypeOK
    <3>2. QED
      BY <3>1 DEF Readable
  <2>4. QED
    BY <2>2, <2>3 DEF Readable
<1>5. CASE UNCHANGED vars
  BY <1>5 DEF vars, package
<1>6. QED
  BY <1>2, <1>3, <1>4, <1>5 DEF Next

\* An abandoned package is never repaired, by nobody and by no accident.
THEOREM AbandonedSafe == Spec => NeverRepaired
<1>1. IInv /\ [Next]_vars =>
        [present /\ present' /\ owner = None /\ ~Readable(names) => ~Readable(names')]_vars
  BY StaysBroken
<1>2. QED
  BY <1>1, Invariant, PTL DEF Spec, NeverRepaired
=============================================================================
