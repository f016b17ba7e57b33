--------------------------- MODULE DialogStackProofs ---------------------------
(***************************************************************************)
(* Proofs about DialogStack: the confirm button, the failure reasons and   *)
(* the details.                                                            *)
(***************************************************************************)
EXTENDS DialogStack, SequenceTheorems, TLAPS

Confirmations == {"confirm", "backup"}

(* What makes ButtonTrue inductive: operations belong to components mounted *)
(* so far, one to each, and the component of a running one confirms things,  *)
(* so that closing the dialog replaces it.                                    *)
ButtonInv ==
  /\ mount \in Nat /\ busy \in BOOLEAN
  /\ operations \subseteq [mount: 0..mount, kind: Confirmations]
  /\ \A o, u \in operations : o.mount = u.mount => o = u
  /\ busy => Top(dialog).kind \in Confirmations
  /\ ButtonTrue

----------------------------------------------------------------------------
(* The empty stack shows nothing. *)
LEMMA EmptyTop == Top(<<>>) = NoFrame
BY DEF Top

(* No operation belongs to a component that is still to be mounted: whatever *)
(* the dialog shows next, the button stays true.                              *)
LEMMA ShowsKeepsButton ==
  ASSUME ButtonInv, NEW d, Shows(d), operations' = operations
  PROVE  ButtonInv'
<1> DEFINE new == Top(d)
<1>1. Top(dialog)' = new
  BY DEF Shows, Top
<1>2. CASE new.kind = Top(dialog).kind
  <2>1. UNCHANGED <<mount, busy>>
    BY <1>2 DEF Shows
  <2> QED  BY <1>1, <1>2, <2>1 DEF ButtonInv, ButtonTrue
<1>3. CASE new.kind # Top(dialog).kind
  <2>1. mount' = mount + 1 /\ busy' = FALSE
    BY <1>3 DEF Shows
  <2>2. \A o \in operations : o.mount \in 0..mount
    BY DEF ButtonInv
  <2>3. \A o \in operations' : o.mount # mount'
    BY <2>1, <2>2 DEF ButtonInv
  <2>4. operations' \subseteq [mount: 0..mount', kind: Confirmations]
    BY <2>1 DEF ButtonInv
  <2>5. mount' \in Nat
    BY <2>1 DEF ButtonInv
  <2> QED  BY <2>1, <2>3, <2>4, <2>5 DEF ButtonInv, ButtonTrue
<1> QED  BY <1>2, <1>3

(* The same when an operation ends at that moment and the dialog closes. *)
LEMMA CompletedKeepsButton ==
  ASSUME ButtonInv, NEW o \in operations, Completed(o)
  PROVE  ButtonInv'
<1>1. /\ operations' = operations \ {o} /\ Shows(<<>>)
  BY DEF Completed, close
<1>2. Top(dialog)' = NoFrame
  BY <1>1, EmptyTop DEF Shows, Top
<1>3. CASE Top(dialog).kind = "none"
  <2>1. UNCHANGED <<mount, busy>>
    BY <1>1, <1>3, EmptyTop DEF Shows, NoFrame
  <2>2. ~busy
    BY <1>3 DEF ButtonInv, Confirmations
  <2>3. \A u \in operations' : u.mount # mount
    BY <1>1, <2>2 DEF ButtonInv, ButtonTrue
  <2> QED  BY <1>1, <2>1, <2>2, <2>3 DEF ButtonInv, ButtonTrue
<1>4. CASE Top(dialog).kind # "none"
  <2>1. mount' = mount + 1 /\ busy' = FALSE
    BY <1>1, <1>4, EmptyTop DEF Shows, NoFrame
  <2>2. \A u \in operations : u.mount \in 0..mount
    BY DEF ButtonInv
  <2>3. \A u \in operations' : u.mount # mount'
    BY <1>1, <2>1, <2>2 DEF ButtonInv
  <2>4. operations' \subseteq [mount: 0..mount', kind: Confirmations]
    BY <1>1, <2>1 DEF ButtonInv
  <2>5. mount' \in Nat
    BY <2>1 DEF ButtonInv
  <2> QED  BY <1>1, <2>1, <2>3, <2>4, <2>5 DEF ButtonInv, ButtonTrue
<1> QED  BY <1>3, <1>4

(* The operation that fails is the only one of its component. *)
LEMMA FailedKeepsButton ==
  ASSUME ButtonInv, NEW o \in operations, Failed(o)
  PROVE  ButtonInv'
<1>1. /\ operations' = operations \ {o}
      /\ busy' = (busy /\ o.mount # mount)
      /\ UNCHANGED <<dialog, mount>>
  BY DEF Failed
<1>2. Top(dialog)' = Top(dialog)
  BY <1>1 DEF Top
<1>3. ButtonTrue'
  <2>1. CASE o.mount = mount
    <3>1. \A u \in operations' : u.mount # mount
      BY <1>1, <2>1 DEF ButtonInv
    <3> QED  BY <1>1, <2>1, <3>1 DEF ButtonTrue
  <2>2. CASE o.mount # mount
    BY <1>1, <2>2 DEF ButtonInv, ButtonTrue
  <2> QED  BY <2>1, <2>2
<1>4. busy' \in BOOLEAN /\ (busy' => busy)
  BY <1>1
<1> QED  BY <1>1, <1>2, <1>3, <1>4 DEF ButtonInv

(* The button can be pressed only when no operation of its component runs. *)
LEMMA ConfirmKeepsButton ==
  ASSUME ButtonInv, confirm
  PROVE  ButtonInv'
<1> DEFINE op == [mount |-> mount, kind |-> Top(dialog).kind]
<1>1. /\ Top(dialog).kind \in Confirmations /\ ~busy /\ busy' = TRUE
      /\ operations' = operations \union {op}
      /\ UNCHANGED <<dialog, mount>>
  BY DEF confirm, Confirmations
<1>2. Top(dialog)' = Top(dialog)
  BY <1>1 DEF Top
<1>3. op \in [mount: 0..mount, kind: Confirmations] /\ op.mount = mount
  BY <1>1 DEF ButtonInv
<1>4. \A u \in operations : u.mount # mount
  BY <1>1 DEF ButtonInv, ButtonTrue
<1>5. \A a, b \in operations' : a.mount = b.mount => a = b
  BY <1>1, <1>3, <1>4 DEF ButtonInv
<1> HIDE DEF op
<1> QED  BY <1>1, <1>2, <1>3, <1>5 DEF ButtonInv, ButtonTrue

(* Steps that touch neither the dialog nor its operations. *)
LEMMA OtherKeepsButton ==
  ASSUME ButtonInv, UNCHANGED <<dialog, mount, busy, operations>>
  PROVE  ButtonInv'
BY DEF ButtonInv, ButtonTrue, Top

(* ButtonInv holds initially and every step keeps it. *)
THEOREM ButtonCorrect == Spec => []ButtonInv
<1>1. Init => ButtonInv
  <2> SUFFICES ASSUME Init PROVE ButtonInv
    OBVIOUS
  <2>1. mount \in Nat /\ busy \in BOOLEAN /\ ~busy /\ operations = {}
    BY DEF Init
  <2> QED  BY <2>1 DEF ButtonInv, ButtonTrue
<1>2. ButtonInv /\ [Next]_vars => ButtonInv'
  <2> SUFFICES ASSUME ButtonInv, [Next]_vars PROVE ButtonInv'
    OBVIOUS
  <2>1. ASSUME NEW k \in Kinds, NEW i \in Items, OpenFromPage(k, i)
        PROVE  ButtonInv'
    BY <2>1, ShowsKeepsButton DEF OpenFromPage, open, requestVars
  <2>2. ASSUME NEW k \in Kinds, NEW i \in Items, FollowLink(k, i)
        PROVE  ButtonInv'
    BY <2>2, OtherKeepsButton DEF FollowLink, dialogVars
  <2>3. CASE OpenWizard
    BY <2>3, ShowsKeepsButton DEF OpenWizard, open, requestVars
  <2>4. CASE Close
    BY <2>4, ShowsKeepsButton DEF Close, close, requestVars
  <2>5. CASE Back
    BY <2>5, ShowsKeepsButton DEF Back, back, requestVars
  <2>6. CASE ViewTasks
    BY <2>6, ShowsKeepsButton DEF ViewTasks, close, requestVars
  <2>7. CASE confirm
    BY <2>7, ConfirmKeepsButton
  <2>8. ASSUME NEW f \in opening, LinkAnswer(f) PROVE ButtonInv'
    BY <2>8, ShowsKeepsButton DEF LinkAnswer, open
  <2>9. ASSUME NEW f \in opening, LinkFails(f) PROVE ButtonInv'
    BY <2>9, OtherKeepsButton DEF LinkFails, dialogVars
  <2>10. ASSUME NEW n \in DOMAIN reads, DetailAnswer(n) \/ DetailFails(n)
         PROVE  ButtonInv'
    BY <2>10, OtherKeepsButton DEF DetailAnswer, DetailFails, requestVars
  <2>11. ASSUME NEW o \in operations, Completed(o) PROVE ButtonInv'
    BY <2>11, CompletedKeepsButton
  <2>12. ASSUME NEW o \in operations, Failed(o) PROVE ButtonInv'
    BY <2>12, FailedKeepsButton
  <2>13. ASSUME NEW r \in Routes, Navigation(r) PROVE ButtonInv'
    BY <2>13, OtherKeepsButton DEF Navigation, dialogVars, requestVars
  <2>14. ASSUME NEW s \in SUBSET Batches, BatchesChange(s) PROVE ButtonInv'
    BY <2>14, OtherKeepsButton DEF BatchesChange, dialogVars, requestVars
  <2>15. ASSUME NEW s \in reasonReads, ReasonsAnswer(s) PROVE ButtonInv'
    BY <2>15, OtherKeepsButton DEF ReasonsAnswer, dialogVars, requestVars
  <2>16. CASE UNCHANGED vars
    BY <2>16, OtherKeepsButton DEF vars, dialogVars, requestVars
  <2> QED
    BY <2>1, <2>2, <2>3, <2>4, <2>5, <2>6, <2>7, <2>8, <2>9, <2>10, <2>11,
       <2>12, <2>13, <2>14, <2>15, <2>16 DEF Next
<1> QED  BY <1>1, <1>2, PTL DEF Spec

(* The confirm button of the dialog is disabled exactly while an operation  *)
(* of the component shown runs, for any items, frames and operations.        *)
THEOREM ButtonIsTrue == Spec => []ButtonTrue
<1>1. ButtonInv => ButtonTrue
  BY DEF ButtonInv
<1> QED  BY <1>1, ButtonCorrect, PTL

----------------------------------------------------------------------------
(* The keys of a set of reasons. *)
LEMMA BatchKeys ==
  ASSUME NEW s, NEW w PROVE {r[1] : r \in Batch(s, w)} = s
<1>1. \A b \in s : <<b, w>> \in Batch(s, w) /\ <<b, w>>[1] = b
  BY DEF Batch
<1>2. \A r \in Batch(s, w) : r[1] \in s
  BY DEF Batch
<1> QED  BY <1>1, <1>2

(* Keys of a union. *)
LEMMA UnionKeys ==
  ASSUME NEW A, NEW B
  PROVE  {r[1] : r \in A \union B} = {r[1] : r \in A} \union {r[1] : r \in B}
OBVIOUS

(* An effect that runs installs the batches it runs for. *)
LEMMA EffectInstalls ==
  ASSUME NEW s, ReasonsEffect(s) PROVE {r[1] : r \in reasons'} = s
BY BatchKeys DEF ReasonsEffect

(* The failure reasons shown are those of the failed batches shown, for any  *)
(* lists of batches and any order of their answers (PlansPage's effect).      *)
THEOREM ReasonsAreCurrent == Spec => []ReasonsCurrent
<1>1. Init => ReasonsCurrent
  BY DEF Init, ReasonsCurrent
<1>2. ReasonsCurrent /\ [Next]_vars => ReasonsCurrent'
  <2> SUFFICES ASSUME ReasonsCurrent, [Next]_vars PROVE ReasonsCurrent'
    OBVIOUS
  <2>1. ASSUME UNCHANGED <<route, failedBatches, reasons>>
        PROVE  ReasonsCurrent'
    BY <2>1 DEF ReasonsCurrent
  <2>2. ASSUME NEW r, Mounts(r) PROVE ReasonsCurrent'
    BY <2>2, EffectInstalls DEF Mounts, ReasonsCurrent
  <2>3. ASSUME NEW r, navigate(r) PROVE ReasonsCurrent'
    BY <2>1, <2>2, <2>3 DEF navigate, pageVars
  <2>4. ASSUME NEW r \in Routes, Navigation(r) PROVE ReasonsCurrent'
    BY <2>3, <2>4 DEF Navigation
  <2>5. CASE ViewTasks
    BY <2>3, <2>5 DEF ViewTasks
  <2>6. ASSUME NEW s \in SUBSET Batches, BatchesChange(s)
        PROVE  ReasonsCurrent'
    <3>1. CASE route = "plans"
      BY <2>6, <3>1, EffectInstalls DEF BatchesChange, ReasonsCurrent
    <3>2. CASE route # "plans"
      BY <2>6, <3>2 DEF BatchesChange, ReasonsCurrent
    <3> QED  BY <3>1, <3>2
  <2>7. ASSUME NEW s \in reasonReads, ReasonsAnswer(s) PROVE ReasonsCurrent'
    <3>1. CASE ~StillActive(s)
      BY <2>1, <2>7, <3>1 DEF ReasonsAnswer
    <3>2. CASE StillActive(s)
      <4>1. PICK u \in SUBSET s : reasons' = Batch(s \ u, "read")
                                     \union Batch(u, "unavailable")
        BY <2>7, <3>2 DEF ReasonsAnswer
      <4>2. {r[1] : r \in reasons'} = s
        <5>1. {r[1] : r \in Batch(s \ u, "read")} = s \ u
          BY BatchKeys
        <5>2. {r[1] : r \in Batch(u, "unavailable")} = u
          BY BatchKeys
        <5>3. {r[1] : r \in reasons'} = (s \ u) \union u
          BY <4>1, <5>1, <5>2, UnionKeys
        <5> QED  BY <5>3
      <4> QED  BY <2>7, <3>2, <4>2 DEF ReasonsAnswer, StillActive, ReasonsCurrent
    <3> QED  BY <3>1, <3>2
  <2>8. ASSUME UNCHANGED pageVars PROVE ReasonsCurrent'
    BY <2>1, <2>8 DEF pageVars
  <2>9. ASSUME NEW k \in Kinds, NEW i \in Items,
               OpenFromPage(k, i) \/ FollowLink(k, i)
        PROVE  ReasonsCurrent'
    BY <2>8, <2>9 DEF OpenFromPage, FollowLink
  <2>10. CASE OpenWizard \/ Close \/ Back \/ confirm
    BY <2>8, <2>10 DEF OpenWizard, Close, Back, confirm
  <2>11. ASSUME NEW f \in opening, LinkAnswer(f) \/ LinkFails(f)
         PROVE  ReasonsCurrent'
    BY <2>8, <2>11 DEF LinkAnswer, LinkFails
  <2>12. ASSUME NEW n \in DOMAIN reads, DetailAnswer(n) \/ DetailFails(n)
         PROVE  ReasonsCurrent'
    BY <2>8, <2>12 DEF DetailAnswer, DetailFails
  <2>13. ASSUME NEW o \in operations, Completed(o) \/ Failed(o)
         PROVE  ReasonsCurrent'
    BY <2>8, <2>13 DEF Completed, Failed
  <2>14. CASE UNCHANGED vars
    BY <2>8, <2>14 DEF vars
  <2> QED
    BY <2>4, <2>5, <2>6, <2>7, <2>9, <2>10, <2>11, <2>12, <2>13, <2>14 DEF Next
<1> QED  BY <1>1, <1>2, PTL DEF Spec

----------------------------------------------------------------------------
(* What the details of the dialog rest on: the youngest read of the          *)
(* component shown is for the item in the title, as long as no answer was     *)
(* lost or overtook an older one.                                              *)
DetailTypes ==
  /\ dialog \in Seq(Frame) /\ opening \subseteq Frame
  /\ mount \in Nat /\ disturbed \in BOOLEAN
  /\ reads \in Seq([mount: Nat, item: Items])
  /\ \A n \in DOMAIN reads : reads[n].mount <= mount

YoungestForTitle ==
  Top(dialog).kind \in Reading /\ ~disturbed
  => \A n \in DOMAIN reads :
       /\ reads[n].mount = mount
       /\ \A m \in DOMAIN reads : m > n => reads[m].mount # mount
       => reads[n].item = Top(dialog).item

DetailInv == DetailTypes /\ YoungestForTitle /\ DetailSettles

(* A frame of a component that reads is a frame of the stack. *)
LEMMA TopIsFrame ==
  ASSUME NEW d \in Seq(Frame), Top(d).kind \in Reading
  PROVE  Top(d) \in Frame
<1>1. d # <<>>
  BY EmptyTop DEF NoFrame, Reading
<1>2. Len(d) \in DOMAIN d
  BY <1>1
<1> QED  BY <1>1, <1>2 DEF Top, Last

(* The frames a step may leave on the stack. *)
LEMMA StackTypes ==
  ASSUME NEW d \in Seq(Frame)
  PROVE  /\ \A k \in Kinds, i \in Items : Append(d, frame(k, i)) \in Seq(Frame)
         /\ d # <<>> => Front(d) \in Seq(Frame)
<1>1. ASSUME NEW k \in Kinds, NEW i \in Items
      PROVE  Append(d, frame(k, i)) \in Seq(Frame)
  <2>1. frame(k, i) \in Frame
    BY DEF frame, Frame
  <2> QED  BY <2>1
<1>2. ASSUME d # <<>> PROVE Front(d) \in Seq(Frame)
  BY <1>2 DEF Front
<1> QED  BY <1>1, <1>2

(* Whatever the dialog shows next, a new title has a read of its own. *)
LEMMA ShowsKeepsDetail ==
  ASSUME DetailInv, NEW d \in Seq(Frame), Shows(d), opening' \subseteq Frame
  PROVE  DetailInv'
<1> DEFINE new == Top(d)
<1>0. DetailTypes /\ Len(reads) \in Nat /\ DOMAIN reads = 1..Len(reads)
  BY DEF DetailInv, DetailTypes
<1>1. Top(dialog)' = new /\ dialog' = d
  BY DEF Shows, Top
<1>2. /\ mount' \in Nat /\ mount <= mount' /\ disturbed' \in BOOLEAN
      /\ new.kind = Top(dialog).kind => UNCHANGED <<mount, detail, disturbed>>
      /\ new.kind # Top(dialog).kind => mount' = mount + 1
  <2>1. mount \in Nat /\ disturbed \in BOOLEAN
    BY <1>0 DEF DetailTypes
  <2>2. CASE new.kind = Top(dialog).kind
    <3>1. UNCHANGED <<mount, detail, disturbed>>
      BY <2>2 DEF Shows
    <3> QED  BY <2>1, <2>2, <3>1
  <2>3. CASE new.kind # Top(dialog).kind
    <3>1. mount' = mount + 1 /\ disturbed' = FALSE
      BY <2>3 DEF Shows
    <3>2. mount' \in Nat /\ mount <= mount'
      BY <2>1, <3>1
    <3> QED  BY <2>3, <3>1, <3>2
  <2> QED  BY <2>2, <2>3
<1>a. mount \in Nat /\ \A n \in DOMAIN reads : reads[n] \in [mount: Nat, item: Items]
  BY <1>0, ElementOfSeq DEF DetailTypes
<1>b. \A n \in DOMAIN reads : reads[n].mount \in Nat /\ reads[n].mount <= mount
  BY <1>0, <1>a DEF DetailTypes
<1>c. \A n \in DOMAIN reads : reads[n].mount <= mount'
  BY <1>2, <1>a, <1>b
<1>3. CASE new # Top(dialog) /\ new.kind \in Reading
  <2> DEFINE r == [mount |-> mount', item |-> new.item]
  <2>1. reads' = Append(reads, r)
    BY <1>3 DEF Shows
  <2>2. new \in Frame
    BY <1>3, TopIsFrame
  <2>3. r \in [mount: Nat, item: Items] /\ r.mount = mount' /\ r.item = new.item
    BY <1>2, <2>2 DEF Frame
  <2> HIDE DEF r, new
  <2>4. /\ reads' \in Seq([mount: Nat, item: Items])
        /\ Len(reads') = Len(reads) + 1 /\ DOMAIN reads' = 1..(Len(reads) + 1)
        /\ reads'[Len(reads) + 1] = r
        /\ \A n \in 1..Len(reads) : reads'[n] = reads[n]
    BY <1>0, <2>1, <2>3 DEF DetailTypes
  <2>5. Len(reads) + 1 \in DOMAIN reads'
    BY <1>0, <2>4
  <2>6. \A n \in DOMAIN reads' : n = Len(reads) + 1 \/ n \in 1..Len(reads)
    BY <1>0, <2>4
  <2>7. \A n \in DOMAIN reads' : reads'[n].mount <= mount'
    BY <1>0, <1>2, <1>c, <2>3, <2>4, <2>6
  <2>8. DetailTypes'
    BY <1>0, <1>1, <1>2, <2>4, <2>7 DEF DetailTypes
  <2>9. \A n \in 1..Len(reads) : Len(reads) + 1 > n
    BY <1>0
  <2>10. YoungestForTitle'
    BY <1>1, <2>3, <2>4, <2>5, <2>6, <2>9 DEF YoungestForTitle
  <2>11. DetailSettles'
    BY <2>3, <2>4, <2>5 DEF DetailSettles
  <2> QED  BY <2>8, <2>10, <2>11 DEF DetailInv
<1>4. CASE ~(new # Top(dialog) /\ new.kind \in Reading)
  <2>1. reads' = reads
    BY <1>4 DEF Shows
  <2>2. DetailTypes'
    BY <1>0, <1>1, <1>2, <1>c, <2>1 DEF DetailTypes
  <2>3. CASE new = Top(dialog)
    BY <1>1, <1>2, <2>1, <2>2, <2>3
       DEF DetailInv, YoungestForTitle, DetailSettles
  <2>4. CASE new.kind \notin Reading
    BY <1>1, <2>2, <2>4 DEF DetailInv, YoungestForTitle, DetailSettles
  <2> QED  BY <1>4, <2>3, <2>4
<1> QED  BY <1>3, <1>4

(* What is left of the reads when one is answered. *)
LEMMA RemoveRead ==
  ASSUME NEW S, NEW s \in Seq(S), NEW n \in DOMAIN s
  PROVE  /\ RemoveAt(s, n) \in Seq(S)
         /\ DOMAIN RemoveAt(s, n) = 1..(Len(s) - 1)
         /\ \A k \in 1..(Len(s) - 1) :
              RemoveAt(s, n)[k] = s[IF k < n THEN k ELSE k + 1]
<1> DEFINE a == SubSeq(s, 1, n - 1)
           b == SubSeq(s, n + 1, Len(s))
<1>0. Len(s) \in Nat /\ n \in 1..Len(s) /\ DOMAIN s = 1..Len(s)
  OBVIOUS
<1>1. /\ a \in Seq(S) /\ Len(a) = n - 1
      /\ \A k \in 1..(n - 1) : a[k] = s[k]
  BY <1>0
<1>2. /\ b \in Seq(S) /\ Len(b) = Len(s) - n
      /\ \A k \in 1..(Len(s) - n) : b[k] = s[k + n]
  BY <1>0
<1>3. RemoveAt(s, n) = a \o b
  BY DEF RemoveAt
<1> HIDE DEF a, b
<1>4. a \o b \in Seq(S) /\ Len(a \o b) = Len(s) - 1
  <2>1. a \o b \in Seq(S) /\ Len(a \o b) = Len(a) + Len(b)
    BY <1>1, <1>2, ConcatProperties
  <2> QED  BY <1>0, <1>1, <1>2, <2>1
<1>5. ASSUME NEW k \in 1..(Len(s) - 1)
      PROVE  (a \o b)[k] = s[IF k < n THEN k ELSE k + 1]
  <2>1. CASE k < n
    BY <1>0, <1>1, <1>2, <2>1
  <2>2. CASE ~(k < n)
    <3>1. (a \o b)[k] = b[k - (n - 1)]
      BY <1>0, <1>1, <1>2, <2>2
    <3>2. k - (n - 1) \in 1..(Len(s) - n) /\ (k - (n - 1)) + n = k + 1
      BY <1>0, <2>2
    <3> QED  BY <1>2, <2>2, <3>1, <3>2
  <2> QED  BY <2>1, <2>2
<1>6. DOMAIN (a \o b) = 1..(Len(s) - 1)
  BY <1>4
<1> QED  BY <1>3, <1>4, <1>5, <1>6

(* An answer that overtook no older one leaves the youngest read in place,   *)
(* or was the last and belongs to the item in the title.                       *)
LEMMA DetailAnswerKeeps ==
  ASSUME DetailInv, NEW n \in DOMAIN reads, DetailAnswer(n) \/ DetailFails(n)
  PROVE  DetailInv'
<1> DEFINE at(k) == IF k < n THEN k ELSE k + 1
<1>0. /\ DetailTypes /\ Len(reads) \in Nat /\ n \in 1..Len(reads)
      /\ DOMAIN reads = 1..Len(reads)
  BY DEF DetailInv, DetailTypes
<1>1. reads' = RemoveAt(reads, n) /\ UNCHANGED <<dialog, mount, opening>>
  BY DEF DetailAnswer, DetailFails, requestVars
<1>2. Top(dialog)' = Top(dialog)
  BY <1>1 DEF Top
<1>3. /\ reads' \in Seq([mount: Nat, item: Items])
      /\ DOMAIN reads' = 1..(Len(reads) - 1)
      /\ \A k \in DOMAIN reads' : reads'[k] = reads[at(k)]
  BY <1>0, <1>1, RemoveRead DEF DetailTypes
<1>4. \A k \in DOMAIN reads' : at(k) \in DOMAIN reads
  BY <1>0, <1>3
<1>5. \A m \in DOMAIN reads : m # n => \E k \in DOMAIN reads' : at(k) = m
  <2> SUFFICES ASSUME NEW m \in DOMAIN reads, m # n
               PROVE  \E k \in DOMAIN reads' : at(k) = m
    OBVIOUS
  <2>1. CASE m < n
    <3>1. m \in DOMAIN reads' /\ at(m) = m
      BY <1>0, <1>3, <2>1
    <3> QED  BY <3>1
  <2>2. CASE ~(m < n)
    <3>1. m - 1 \in DOMAIN reads' /\ at(m - 1) = m
      BY <1>0, <1>3, <2>2
    <3> QED  BY <3>1
  <2> QED  BY <2>1, <2>2
<1>6. \A j, k \in DOMAIN reads' : at(k) > at(j) => k > j
  BY <1>0, <1>3
<1>7. disturbed' \in BOOLEAN /\ (disturbed => disturbed')
  BY <1>0 DEF DetailAnswer, DetailFails, DetailTypes
<1> HIDE DEF at
<1>8. DetailTypes'
  <2>1. \A k \in DOMAIN reads' : reads'[k].mount <= mount'
    BY <1>0, <1>1, <1>3, <1>4 DEF DetailTypes
  <2> QED  BY <1>0, <1>1, <1>3, <1>7, <2>1 DEF DetailTypes
<1>9. ASSUME Top(dialog).kind \in Reading, ~disturbed', NEW j \in DOMAIN reads',
             reads'[j].mount = mount,
             \A k \in DOMAIN reads' : k > j => reads'[k].mount # mount
      PROVE  reads'[j].item = Top(dialog).item
  <2>1. reads[at(j)].mount = mount /\ at(j) \in DOMAIN reads
    BY <1>3, <1>4, <1>9
  <2>2. ASSUME NEW m \in DOMAIN reads, m > at(j), reads[m].mount = mount
        PROVE  FALSE
    <3>1. CASE m = n
      <4>1. at(j) \in 1..n-1
        BY <1>0, <2>1, <2>2, <3>1
      <4> QED  BY <1>9, <2>1, <2>2, <3>1, <4>1 DEF DetailAnswer, DetailFails
    <3>2. CASE m # n
      <4>1. PICK k \in DOMAIN reads' : at(k) = m
        BY <1>5, <3>2
      <4> QED  BY <1>3, <1>6, <1>9, <2>2, <4>1
    <3> QED  BY <3>1, <3>2
  <2>3. reads[at(j)].item = Top(dialog).item
    BY <1>7, <1>9, <2>1, <2>2 DEF DetailInv, YoungestForTitle
  <2> QED  BY <1>3, <2>3
<1>10. ASSUME Top(dialog).kind \in Reading, ~disturbed',
              \A k \in DOMAIN reads' : reads'[k].mount # mount
       PROVE  detail' = Top(dialog).item
  <2>1. \A m \in DOMAIN reads : m # n => reads[m].mount # mount
    BY <1>3, <1>5, <1>10
  <2>2. CASE reads[n].mount = mount
    <3>1. DetailAnswer(n)
      BY <1>10, <2>2 DEF DetailFails
    <3>2. \A m \in DOMAIN reads : m > n => m # n
      BY <1>0
    <3>3. reads[n].item = Top(dialog).item
      BY <1>7, <1>10, <2>1, <2>2, <3>2 DEF DetailInv, YoungestForTitle
    <3>4. Takes(reads[n])
      BY <2>2, <3>3 DEF Takes
    <3> QED  BY <3>1, <3>3, <3>4 DEF DetailAnswer
  <2>3. CASE reads[n].mount # mount
    <3>1. detail' = detail
      BY <2>3 DEF DetailAnswer, DetailFails, Takes
    <3> QED  BY <1>7, <1>10, <2>1, <2>3, <3>1 DEF DetailInv, DetailSettles
  <2> QED  BY <2>2, <2>3
<1>11. YoungestForTitle'
  BY <1>1, <1>2, <1>9 DEF YoungestForTitle
<1>12. DetailSettles'
  BY <1>1, <1>2, <1>10 DEF DetailSettles
<1> QED  BY <1>8, <1>11, <1>12 DEF DetailInv

(* Steps that touch neither the dialog nor its reads. *)
LEMMA OtherKeepsDetail ==
  ASSUME DetailInv, UNCHANGED <<dialog, mount, detail, reads, disturbed>>,
         opening' \subseteq Frame
  PROVE  DetailInv'
BY DEF DetailInv, DetailTypes, YoungestForTitle, DetailSettles, Top

(* The details shown once all reads are answered belong to the item in the   *)
(* title, unless an answer was lost or overtook another, for any items, any    *)
(* stack of frames and any late answers (TaskDetails, SnapshotDetails,          *)
(* PlanDetails).                                                                 *)
THEOREM DetailSettlesHolds == Spec => []DetailSettles
<1>1. Init => DetailInv
  <2> SUFFICES ASSUME Init PROVE DetailInv
    OBVIOUS
  <2>1. /\ dialog = <<>> /\ mount = 0 /\ reads = <<>> /\ opening = {}
        /\ disturbed = FALSE
    BY Zenon DEF Init
  <2>2. Top(dialog).kind \notin Reading
    BY <2>1, EmptyTop DEF NoFrame, Reading
  <2>3. DetailTypes
    <3>1. <<>> \in Seq(Frame) /\ <<>> \in Seq([mount: Nat, item: Items])
      BY EmptySeq
    <3>2. DOMAIN reads = {}
      BY <2>1
    <3> QED  BY <2>1, <3>1, <3>2 DEF DetailTypes
  <2> QED  BY <2>2, <2>3 DEF DetailInv, YoungestForTitle, DetailSettles
<1>2. DetailInv /\ [Next]_vars => DetailInv'
  <2> SUFFICES ASSUME DetailInv, [Next]_vars PROVE DetailInv'
    OBVIOUS
  <2>0. dialog \in Seq(Frame) /\ opening \subseteq Frame
    BY DEF DetailInv, DetailTypes
  <2>1. ASSUME NEW k \in Kinds, NEW i \in Items, OpenFromPage(k, i)
        PROVE  DetailInv'
    <3>1. Append(dialog, frame(k, i)) \in Seq(Frame)
      BY <2>0, StackTypes
    <3> QED  BY <2>0, <2>1, <3>1, ShowsKeepsDetail
             DEF OpenFromPage, open, requestVars
  <2>2. ASSUME NEW k \in Kinds, NEW i \in Items, FollowLink(k, i)
        PROVE  DetailInv'
    <3>1. frame(k, i) \in Frame
      BY DEF frame, Frame
    <3> QED  BY <2>0, <2>2, <3>1, OtherKeepsDetail DEF FollowLink, dialogVars
  <2>3. CASE OpenWizard
    <3>1. dialog # <<>>
      BY <2>3, EmptyTop DEF OpenWizard, NoFrame
    <3>2. Len(dialog) \in DOMAIN dialog
      BY <2>0, <3>1
    <3>3. Top(dialog) \in Frame
      BY <2>0, <3>1, <3>2 DEF Top, Last
    <3>4. Top(dialog).item \in Items /\ "plan" \in Kinds
      BY <3>3 DEF Frame, Kinds
    <3>5. Append(dialog, frame("plan", Top(dialog).item)) \in Seq(Frame)
      BY <2>0, <3>4, StackTypes
    <3> QED  BY <2>0, <2>3, <3>5, ShowsKeepsDetail
             DEF OpenWizard, open, requestVars
  <2>4. <<>> \in Seq(Frame)
    OBVIOUS
  <2>5. CASE Close
    BY <2>0, <2>4, <2>5, ShowsKeepsDetail DEF Close, close, requestVars
  <2>6. CASE Back
    <3>1. dialog # <<>> /\ Front(dialog) \in Seq(Frame)
      BY <2>0, <2>6, StackTypes DEF Back
    <3>2. Shows(Front(dialog)) /\ opening' = opening
      BY <2>6, <3>1 DEF Back, back, requestVars
    <3> QED  BY <2>0, <3>1, <3>2, ShowsKeepsDetail
  <2>7. CASE ViewTasks
    BY <2>0, <2>4, <2>7, ShowsKeepsDetail DEF ViewTasks, close, requestVars
  <2>8. CASE confirm
    BY <2>0, <2>8, OtherKeepsDetail DEF confirm
  <2>9. ASSUME NEW f \in opening, LinkAnswer(f) PROVE DetailInv'
    <3>1. f.kind \in Kinds /\ f.item \in Items
      BY <2>0 DEF Frame
    <3>2. Append(dialog, frame(f.kind, f.item)) \in Seq(Frame)
      BY <2>0, <3>1, StackTypes
    <3> QED  BY <2>0, <2>9, <3>2, ShowsKeepsDetail DEF LinkAnswer, open
  <2>10. ASSUME NEW f \in opening, LinkFails(f) PROVE DetailInv'
    BY <2>0, <2>10, OtherKeepsDetail DEF LinkFails, dialogVars
  <2>11. ASSUME NEW n \in DOMAIN reads, DetailAnswer(n) \/ DetailFails(n)
         PROVE  DetailInv'
    BY <2>11, DetailAnswerKeeps
  <2>12. ASSUME NEW o \in operations, Completed(o) PROVE DetailInv'
    BY <2>0, <2>4, <2>12, ShowsKeepsDetail DEF Completed, close
  <2>13. ASSUME NEW o \in operations, Failed(o) PROVE DetailInv'
    BY <2>0, <2>13, OtherKeepsDetail DEF Failed
  <2>14. ASSUME NEW r \in Routes, Navigation(r) PROVE DetailInv'
    BY <2>0, <2>14, OtherKeepsDetail DEF Navigation, dialogVars, requestVars
  <2>15. ASSUME NEW s \in SUBSET Batches, BatchesChange(s) PROVE DetailInv'
    BY <2>0, <2>15, OtherKeepsDetail DEF BatchesChange, dialogVars, requestVars
  <2>16. ASSUME NEW s \in reasonReads, ReasonsAnswer(s) PROVE DetailInv'
    BY <2>0, <2>16, OtherKeepsDetail DEF ReasonsAnswer, dialogVars, requestVars
  <2>17. CASE UNCHANGED vars
    BY <2>0, <2>17, OtherKeepsDetail DEF vars, dialogVars, requestVars
  <2> QED
    BY <2>1, <2>2, <2>3, <2>5, <2>6, <2>7, <2>8, <2>9, <2>10, <2>11, <2>12,
       <2>13, <2>14, <2>15, <2>16, <2>17 DEF Next
<1>3. DetailInv => DetailSettles
  BY DEF DetailInv
<1> QED  BY <1>1, <1>2, <1>3, PTL DEF Spec

================================================================================
