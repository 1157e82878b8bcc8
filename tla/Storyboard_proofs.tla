-------------------------- MODULE Storyboard_proofs --------------------------
(***************************************************************************)
(* Proofs about Storyboard, for all values of its constants.               *)
(*                                                                         *)
(* SInv is the inductive invariant.  Its parts need one another: a next    *)
(* panel is a row of the table because the worker's plan has the rows'     *)
(* places (ScenesInv), the panel drawn there has every face because none   *)
(* was missing before it drew (FacesInv), and a finished job has every     *)
(* panel because what a worker takes for done has its panel (ShownInv).    *)
(***************************************************************************)
EXTENDS Storyboard, FiniteSetTheorems, WellFoundedInduction, TLAPS

-----------------------------------------------------------------------------
(* Numbers.                                                                *)

\* A set of natural numbers has a least element.
LEMMA LeastNumber ==
    ASSUME NEW T \in SUBSET Nat, T # {}
    PROVE  \E m \in T : \A n \in T : m <= n
<1>. DEFINE Below == {1 .. n : n \in T}
<1>1. Below \subseteq FiniteSubsetsOf(Nat) /\ Below # {}
  <2>1. \A n \in Nat : 1 .. n \in SUBSET Nat /\ IsFiniteSet(1 .. n)
    BY FS_Interval
  <2>2. \A n \in Nat : 1 .. n \in FiniteSubsetsOf(Nat)
    BY <2>1 DEF FiniteSubsetsOf
  <2>. QED
    BY <2>2
<1>2. PICK B \in Below :
        \A D \in Below : ~(<<D, B>> \in StrictSubsetOrdering(Nat))
  <2>. HIDE DEF Below
  <2>. QED
    BY <1>1, FS_StrictSubsetOrderingWellFounded, WFMin
<1>3. PICK m \in T : B = 1 .. m
  BY <1>2
<1>4. \A n \in T : ~(1 .. n \subseteq 1 .. m /\ 1 .. n # 1 .. m)
  <2>1. TAKE n \in T
  <2>2. 1 .. n \in SUBSET Nat /\ 1 .. m \in SUBSET Nat
    OBVIOUS
  <2>3. <<1 .. n, 1 .. m>> \notin StrictSubsetOrdering(Nat)
    BY <1>2, <1>3
  <2>. QED
    BY <2>2, <2>3 DEF StrictSubsetOrdering
<1>5. \A n \in T : m <= n
  <2>1. TAKE n \in T
  <2>2. CASE n < m
    <3>1. m \in 1 .. m /\ m \notin 1 .. n
      BY <2>2
    <3>2. 1 .. n \subseteq 1 .. m
      BY <2>2
    <3>. QED
      BY <1>4, <3>1, <3>2
  <2>. QED
    BY <2>2
<1>. QED
  BY <1>5

\* Min is that element.
LEMMA MinIs ==
    ASSUME NEW T \in SUBSET Nat, T # {}
    PROVE  Min(T) \in T /\ \A n \in T : Min(T) <= n
<1>1. PICK m \in T : \A n \in T : m <= n
  BY LeastNumber
<1>. QED
  BY <1>1 DEF Min

-----------------------------------------------------------------------------
(* Plans.                                                                  *)

\* The scenes of a plan that covers the lines are ranges of lines, one after
\* the other, and every line is in one.
LEMMA CoverOrder ==
    ASSUME NEW S, NEW p \in Seq(S), NEW lines, Covers(p, lines),
           NEW k \in Nat, k = Len(p)
    PROVE  /\ DOMAIN p = 1 .. k /\ k # 0
           /\ \A i \in 1 .. k :
                p[i].from \in Nat /\ p[i].to \in Nat /\ p[i].from <= p[i].to
           /\ \A i, j \in 1 .. k : i < j => p[i].to < p[j].from
           /\ \A n \in 1 .. lines :
                \E i \in 1 .. k : n \in p[i].from .. p[i].to
<1>0. DOMAIN p = 1 .. k /\ p # <<>> /\ k # 0
  BY DEF Covers
<1>1. /\ k # 0 /\ p[k].to = lines
      /\ \A i \in 1 .. k :
           /\ p[i].from = IF i = 1 THEN 1 ELSE p[i - 1].to + 1
           /\ p[i].to \in p[i].from .. lines
  BY <1>0 DEF Covers, Last
<1>2. \A i \in 1 .. k : p[i].to \in Int
  BY <1>1
<1>3. \A i \in 1 .. k : p[i].from \in Int /\ p[i].from <= p[i].to
  <2>1. TAKE i \in 1 .. k
  <2>2. CASE i = 1
    BY <1>1, <2>2
  <2>3. CASE i # 1
    <3>1. i - 1 \in 1 .. k
      BY <2>3
    <3>. QED
      BY <1>1, <1>2, <2>3, <3>1
  <2>. QED
    BY <2>2, <2>3
<1>4. \A i \in 1 .. k : 1 <= p[i].from
  <2>. DEFINE T == {i \in Nat : i \in 1 .. k /\ ~(1 <= p[i].from)}
  <2>1. SUFFICES ASSUME T # {} PROVE FALSE
    OBVIOUS
  <2>2. PICK m \in T : \A n \in T : m <= n
    BY <2>1, LeastNumber
  <2>3. m # 1
    BY <1>1, <2>2
  <2>4. m - 1 \in 1 .. k /\ m - 1 \notin T
    BY <2>2, <2>3
  <2>. QED
    BY <1>1, <1>2, <1>3, <2>2, <2>3, <2>4
<1>5. \A i, j \in 1 .. k : i < j => p[i].to < p[j].from
  <2>1. TAKE i \in 1 .. k
  <2>. DEFINE T == {j \in Nat : /\ j \in 1 .. k /\ i < j
                                /\ ~(p[i].to < p[j].from)}
  <2>2. SUFFICES ASSUME T # {} PROVE FALSE
    OBVIOUS
  <2>3. PICK m \in T : \A n \in T : m <= n
    BY <2>2, LeastNumber
  <2>4. m # 1 /\ m - 1 \in 1 .. k /\ m - 1 \notin T
    BY <2>3
  <2>5. p[m].from = p[m - 1].to + 1
    BY <1>1, <2>3, <2>4
  <2>6. CASE m - 1 = i
    BY <1>2, <2>3, <2>5, <2>6
  <2>7. CASE m - 1 # i
    <3>1. p[i].to < p[m - 1].from
      BY <2>3, <2>4, <2>7
    <3>. QED
      BY <1>2, <1>3, <2>3, <2>4, <2>5, <3>1
  <2>. QED
    BY <2>6, <2>7
<1>6. \A n \in 1 .. lines : \E i \in 1 .. k : n \in p[i].from .. p[i].to
  <2>1. TAKE n \in 1 .. lines
  <2>. DEFINE T == {i \in Nat : i \in 1 .. k /\ n <= p[i].to}
  <2>2. lines \in Int
    BY <1>1, <1>2
  <2>3. k \in T
    BY <1>1, <2>2
  <2>4. PICK m \in T : \A i \in T : m <= i
    BY <2>3, LeastNumber
  <2>5. p[m].from <= n
    <3>1. CASE m = 1
      BY <1>1, <2>2, <2>4, <3>1
    <3>2. CASE m # 1
      <4>1. m - 1 \in 1 .. k /\ m - 1 \notin T
        BY <2>4, <3>2
      <4>. QED
        BY <1>1, <1>2, <2>2, <2>4, <3>2, <4>1
    <3>. QED
      BY <3>1, <3>2
  <2>. QED
    BY <1>2, <1>3, <2>2, <2>4, <2>5
<1>. QED
  BY <1>0, <1>2, <1>3, <1>4, <1>5, <1>6

\* A plan that the parser accepted is a sequence of scene rows that covers the
\* chapter's lines, none of them drawn.
LEMMA PlansCover ==
    ASSUME NEW plan \in Plans
    PROVE  /\ plan \in Seq(SceneRow) /\ plan # <<>>
           /\ Covers(plan, Len(BuildTranscript))
           /\ \A i \in DOMAIN plan :
                plan[i].status = "PLANNED" /\ plan[i].panel = NoPanel
<1>. DEFINE lines == Len(BuildTranscript)
            Row == [number : Int, from : Int, to : Int, names : SUBSET STRING]
<1>1. PICK f \in Drafts : /\ Acceptable(NormalizeSceneShapes(f), lines)
                          /\ plan = ParsePlan(NormalizeSceneShapes(f))
  BY DEF Plans
<1>. DEFINE d == NormalizeSceneShapes(f)
<1>2. f \in Seq(Row)
  BY StoryboardConstantsOK
<1>3. /\ DOMAIN f = 1 .. Len(f) /\ Len(f) \in Nat
      /\ \A i \in 1 .. Len(f) : f[i] \in Row
  <2>. HIDE DEF Row
  <2>. QED
    BY <1>2
<1>4. PICK k \in Nat : k = Len(f) /\ DOMAIN f = 1 .. k
  BY <1>3
<1>5. /\ DOMAIN d = 1 .. k
      /\ \A i \in 1 .. k :
           d[i] = [f[i] EXCEPT !.number = IF @ = Missing THEN i ELSE @]
  BY <1>4 DEF NormalizeSceneShapes
<1>6. d \in Seq(Row)
  <2>1. d = [i \in 1 .. k |->
               [f[i] EXCEPT !.number = IF @ = Missing THEN i ELSE @]]
    BY <1>4 DEF NormalizeSceneShapes
  <2>2. \A i \in 1 .. k : d[i] \in Row
    BY <1>3, <1>4, <1>5
  <2>. HIDE DEF Row
  <2>. QED
    BY <2>1, <2>2
<1>7. /\ Covers(d, lines)
      /\ \A i \in 1 .. k : d[i].names \subseteq DOMAIN CharacterOf
  BY <1>1, <1>5 DEF Acceptable
<1>8. Len(d) = k /\ d # <<>> /\ k # 0
  BY <1>5, <1>6, <1>7 DEF Covers
<1>. HIDE DEF d, lines
<1>9. \A i \in 1 .. k : d[i].from \in Nat /\ d[i].to \in Nat
  BY <1>6, <1>7, <1>8, CoverOrder
<1>10. plan = [i \in 1 .. k |->
                 [from |-> d[i].from, to |-> d[i].to,
                  who |-> {CharacterOf[n] : n \in d[i].names},
                  status |-> "PLANNED", panel |-> NoPanel]]
  BY <1>1, <1>5 DEF ParsePlan, d
<1>11. \A i \in 1 .. k :
         /\ plan[i] \in SceneRow
         /\ plan[i].from = d[i].from /\ plan[i].to = d[i].to
         /\ plan[i].status = "PLANNED" /\ plan[i].panel = NoPanel
  <2>1. TAKE i \in 1 .. k
  <2>2. {CharacterOf[n] : n \in d[i].names} \subseteq Characters
    BY <1>7, StoryboardConstantsOK
  <2>. DEFINE c == {CharacterOf[n] : n \in d[i].names}
              x == NoPanel
  <2>3. plan[i] = [from |-> d[i].from, to |-> d[i].to, who |-> c,
                   status |-> "PLANNED", panel |-> x]
    BY <1>10
  <2>4. x \in Panel \cup {NoPanel} /\ c \in SUBSET Characters
    BY <2>2
  <2>. HIDE DEF c, x
  <2>5. /\ plan[i] \in SceneRow
        /\ plan[i].from = d[i].from /\ plan[i].to = d[i].to
        /\ plan[i].status = "PLANNED" /\ plan[i].panel = x
    BY <1>9, <2>3, <2>4 DEF SceneRow
  <2>. QED
    BY <2>5 DEF x
<1>12. /\ plan \in Seq(SceneRow) /\ Len(plan) = k /\ plan # <<>>
       /\ DOMAIN plan = 1 .. k
  <2>1. DOMAIN plan = 1 .. k /\ plan = [i \in 1 .. k |-> plan[i]]
    BY <1>10
  <2>2. plan \in [1 .. k -> SceneRow]
    BY <1>11, <2>1
  <2>. QED
    BY <1>8, <2>1, <2>2
<1>13. Covers(plan, lines)
  <2>1. /\ d[k].to = lines
        /\ \A i \in 1 .. k :
             /\ d[i].from = IF i = 1 THEN 1 ELSE d[i - 1].to + 1
             /\ d[i].to \in d[i].from .. lines
    BY <1>5, <1>7, <1>8 DEF Covers, Last, d
  <2>2. \A i \in 1 .. k : i # 1 => plan[i - 1].to = d[i - 1].to
    BY <1>11
  <2>3. \A i \in 1 .. k :
          plan[i].from = IF i = 1 THEN 1 ELSE plan[i - 1].to + 1
    BY <1>11, <2>1, <2>2
  <2>4. \A i \in 1 .. k : plan[i].to \in plan[i].from .. lines
    BY <1>11, <2>1
  <2>5. plan[k].to = lines
    BY <1>8, <1>11, <2>1
  <2>. QED
    BY <1>12, <2>3, <2>4, <2>5 DEF Covers, Last
<1>. QED
  BY <1>11, <1>12, <1>13 DEF lines

-----------------------------------------------------------------------------
(* The invariant.                                                          *)

HasPanel == {i \in DOMAIN scenes : scenes[i].panel # NoPanel}

\* Worker w goes by the scenes of the table.
Drawing(w) ==
    \/ worker[w].pc \in {"panel", "draw"}
    \/ worker[w].pc = "references" /\ worker[w].saved

\* A worker that draws has the characters of the saved scenes, and it takes a
\* scene for done only if its panel is there.
WorkerFits(v) ==
    /\ Drawing(v) =>
         /\ scenes # <<>>
         /\ DOMAIN worker[v].plan = DOMAIN scenes
         /\ \A i \in DOMAIN scenes :
              worker[v].plan[i].who = scenes[i].who
    /\ worker[v].pc = "references" /\ ~worker[v].saved =>
         worker[v].plan \in Plans /\ worker[v].done = {}
    /\ worker[v].done \subseteq HasPanel
    /\ worker[v].pc = "draw" => Remaining(v) # {}

\* The saved scenes cover the chapter, and the workers go by them.
ScenesInv ==
    /\ scenes # <<>> => Covers(scenes, Len(BuildTranscript))
    /\ \A i \in DOMAIN scenes :
         scenes[i].status = "SUCCEEDED" => scenes[i].panel # NoPanel
    /\ \A w \in Calls : WorkerFits(w)

\* A finished storyboard has its panels, also for a page that reads them later.
ShownInv ==
    /\ job = "SUCCEEDED" \/ page = "reading" => EveryPanel(scenes)
    /\ page # "incomplete"

\* A worker's face of a character is the one in the table, if any, and it has
\* them all before it draws.
FaceFits(w) ==
    /\ \A x \in Characters : worker[w].faces[x] \in {NoImage, reference[x]}
    /\ worker[w].pc \in {"panel", "draw"} => NoFace(w) = {}

\* A panel was made from the images in the table.
PanelFits(i) ==
    /\ scenes[i].panel.faces = Restrict(reference, scenes[i].who)
    /\ \A x \in scenes[i].who : reference[x] # NoImage

FacesInv ==
    /\ \A w \in Calls : FaceFits(w)
    /\ \A i \in HasPanel : PanelFits(i)

\* While no two workers have been on the job at once, at most one works, a
\* panel that is there counts as finished, and the worker will not draw it.
AloneInv ==
    ~overlapped =>
      /\ \A v, w \in Calls :
           worker[v].pc \in Working /\ worker[w].pc \in Working => v = w
      /\ \A i \in HasPanel : scenes[i].status = "SUCCEEDED"
      /\ \A w \in Calls : worker[w].pc \in {"references", "panel", "draw"} =>
           HasPanel \subseteq worker[w].done

SInv == TypeOK /\ ScenesInv /\ ShownInv /\ FacesInv /\ AloneInv

-----------------------------------------------------------------------------
(* Types.                                                                  *)

\* A worker's scene for its next panel is a scene of the table.
LEMMA NextScene ==
    ASSUME TypeOK, ScenesInv, NEW w \in Calls, Remaining(w) # {},
           worker[w].pc \in {"panel", "draw"}
    PROVE  /\ Min(Remaining(w)) \in DOMAIN scenes \ worker[w].done
           /\ Min(Remaining(w)) \in DOMAIN worker[w].plan
           /\ worker[w].plan[Min(Remaining(w))].who
                = scenes[Min(Remaining(w))].who
<1>1. worker[w].plan \in Seq(SceneRow)
  BY DEF TypeOK, WorkerState
<1>2. Remaining(w) \in SUBSET Nat
  BY <1>1 DEF Remaining
<1>3. Min(Remaining(w)) \in Remaining(w)
  BY <1>2, MinIs
<1>. QED
  BY <1>3 DEF Remaining, ScenesInv, Drawing, WorkerFits

\* Replacing a scene row leaves a sequence of scene rows.
LEMMA ReplaceRow ==
    ASSUME scenes \in Seq(SceneRow), NEW i \in DOMAIN scenes,
           NEW row \in SceneRow
    PROVE  /\ [scenes EXCEPT ![i] = row] \in Seq(SceneRow)
           /\ DOMAIN [scenes EXCEPT ![i] = row] = DOMAIN scenes
           /\ [scenes EXCEPT ![i] = row][i] = row
           /\ \A j \in DOMAIN scenes \ {i} :
                [scenes EXCEPT ![i] = row][j] = scenes[j]
  OBVIOUS

\* What StartPanel and DrawPanel do to the scenes: one row changes, and it
\* keeps its lines and characters.
LEMMA RowChanges ==
    ASSUME TypeOK, ScenesInv, FacesInv, NEW w \in Calls,
           StartPanel(w) \/ DrawPanel(w)
    PROVE  \E i \in DOMAIN scenes :
             /\ i = Min(Remaining(w)) /\ i \notin worker[w].done
             /\ i \in DOMAIN worker[w].plan
             /\ scenes' \in Seq(SceneRow) /\ DOMAIN scenes' = DOMAIN scenes
             /\ \A j \in DOMAIN scenes \ {i} : scenes'[j] = scenes[j]
             /\ scenes'[i].from = scenes[i].from
             /\ scenes'[i].to = scenes[i].to
             /\ scenes'[i].who = scenes[i].who
             /\ StartPanel(w) => /\ scenes'[i].status = "GENERATING"
                                 /\ scenes'[i].panel = scenes[i].panel
             /\ DrawPanel(w) =>
                  /\ scenes'[i].status = "SUCCEEDED"
                  /\ scenes'[i].panel =
                       [by |-> w,
                        faces |-> Restrict(worker[w].faces, scenes[i].who)]
                  /\ scenes'[i].panel # NoPanel
<1>1. worker[w].pc \in {"panel", "draw"} /\ Remaining(w) # {}
  BY DEF StartPanel, DrawPanel, ScenesInv, WorkerFits
<1>2. PICK i \in DOMAIN scenes :
        /\ i = Min(Remaining(w)) /\ i \notin worker[w].done
        /\ i \in DOMAIN worker[w].plan
        /\ worker[w].plan[i].who = scenes[i].who
  BY <1>1, NextScene
<1>3. scenes \in Seq(SceneRow) /\ scenes[i] \in SceneRow
  BY DEF TypeOK
<1>4. CASE StartPanel(w)
  <2>. DEFINE row == [scenes[i] EXCEPT !.status = "GENERATING"]
  <2>1. scenes' = [scenes EXCEPT ![i] = row]
    BY <1>2, <1>4 DEF StartPanel
  <2>2. /\ row \in SceneRow
        /\ row.from = scenes[i].from /\ row.to = scenes[i].to
        /\ row.who = scenes[i].who /\ row.panel = scenes[i].panel
        /\ row.status = "GENERATING"
    BY <1>3 DEF SceneRow
  <2>3. ~DrawPanel(w)
    BY <1>4 DEF StartPanel, DrawPanel
  <2>. HIDE DEF row
  <2>. QED
    BY <1>2, <1>3, <1>4, <2>1, <2>2, <2>3, ReplaceRow
<1>5. CASE DrawPanel(w)
  <2>. DEFINE f == Restrict(worker[w].faces, scenes[i].who)
              new == [by |-> w, faces |-> f]
              row == [scenes[i] EXCEPT !.status = "SUCCEEDED", !.panel = new]
  <2>1. scenes' = [scenes EXCEPT ![i] = row]
    BY <1>2, <1>5 DEF DrawPanel, Generate
  <2>2. f \in [scenes[i].who -> Images \ {NoImage}]
        /\ scenes[i].who \in SUBSET Characters
    <3>1. \A x \in Characters : worker[w].faces[x] \in Images \ {NoImage}
      BY <1>1 DEF TypeOK, WorkerState, FacesInv, NoFace, FaceFits, PanelFits
    <3>2. scenes[i].who \in SUBSET Characters
      BY <1>3 DEF SceneRow
    <3>. QED
      BY <3>1, <3>2 DEF Restrict
  <2>. HIDE DEF f
  <2>3. new \in Panel /\ new # NoPanel
    BY <2>2, StoryboardConstantsOK DEF Panel, NoPanel
  <2>4. /\ new = [by |-> w, faces |-> f]
    OBVIOUS
  <2>. HIDE DEF new
  <2>5. /\ row \in SceneRow
        /\ row.from = scenes[i].from /\ row.to = scenes[i].to
        /\ row.who = scenes[i].who /\ row.panel = new
        /\ row.status = "SUCCEEDED"
    BY <1>3, <2>3 DEF SceneRow
  <2>6. ~StartPanel(w)
    BY <1>5 DEF StartPanel, DrawPanel
  <2>. HIDE DEF row
  <2>7. /\ scenes' \in Seq(SceneRow) /\ DOMAIN scenes' = DOMAIN scenes
        /\ \A j \in DOMAIN scenes \ {i} : scenes'[j] = scenes[j]
        /\ scenes'[i] = row
    BY <1>3, <2>1, <2>5, ReplaceRow
  <2>8. scenes'[i].panel =
          [by |-> w, faces |-> Restrict(worker[w].faces, scenes[i].who)]
    BY <2>4, <2>5, <2>7 DEF f
  <2>. QED
    BY <1>2, <1>5, <2>3, <2>5, <2>6, <2>7, <2>8
<1>. QED
  BY <1>4, <1>5

\* The initial states are well typed.
LEMMA InitTypeOK == Init => TypeOK
<1>1. NoWorker \in WorkerState /\ NoWorker.done = {}
  <2>1. [x \in Characters |-> NoImage] \in [Characters -> Images]
    BY DEF Images
  <2>2. <<>> \in Seq(SceneRow)
    OBVIOUS
  <2>. QED
    BY <2>1, <2>2 DEF NoWorker, WorkerState
<1>2. \A f : f \in [Characters -> {NoImage, Photo}] =>
        f \in [Characters -> Images]
  BY DEF Images
<1>3. 0 \in 0 .. MaxCrashes
  BY StoryboardConstantsOK
<1>4. <<>> \in Seq(SceneRow)
  OBVIOUS
<1>5. NoCall \in [pc : {"new", "write", "launch", "mark", "ended"},
                 seen : Statuses]
  BY DEF NoCall, Statuses
<1>. SUFFICES ASSUME Init PROVE TypeOK
  OBVIOUS
<1>6. /\ worker \in [Calls -> WorkerState]
      /\ \A w \in Calls : worker[w].done \subseteq DOMAIN worker[w].plan
  BY <1>1 DEF Init
<1>7. /\ call \in [Calls -> [pc : {"new", "write", "launch", "mark", "ended"},
                             seen : Statuses]]
  BY <1>5 DEF Init
<1>8. /\ job \in Statuses
      /\ page \in {"waiting", "reading", "failed", "complete", "incomplete"}
      /\ overlapped \in BOOLEAN /\ scenes \in Seq(SceneRow)
      /\ crashes \in 0 .. MaxCrashes
  BY <1>3, <1>4 DEF Init, Statuses
<1>9. reference \in [Characters -> Images]
  BY <1>2 DEF Init
<1>. QED
  BY <1>6, <1>7, <1>8, <1>9 DEF TypeOK

\* What a worker's steps leave of its state.
LEMMA WorkerTypes ==
    ASSUME TypeOK, ScenesInv, FacesInv, NEW w \in Calls,
           WorkerStep(w) \/ WorkerCrash(w)
    PROVE  /\ worker' \in [Calls -> WorkerState]
           /\ \A v \in Calls : worker'[v].done \subseteq DOMAIN worker'[v].plan
<1>. SUFFICES ASSUME NEW new \in WorkerState,
                     new.done \subseteq DOMAIN new.plan,
                     worker' = [worker EXCEPT ![w] = new]
              PROVE  /\ worker' \in [Calls -> WorkerState]
                     /\ \A v \in Calls :
                          worker'[v].done \subseteq DOMAIN worker'[v].plan
  <2>1. /\ worker[w] \in WorkerState
        /\ worker[w].done \subseteq DOMAIN worker[w].plan
    BY DEF TypeOK
  <2>. DEFINE Fine == \E new \in WorkerState :
                        /\ new.done \subseteq DOMAIN new.plan
                        /\ worker' = [worker EXCEPT ![w] = new]
  <2>2. SUFFICES Fine
    OBVIOUS
  <2>3. ASSUME WorkerEnds(w) PROVE Fine
    <3>. DEFINE new == [NoWorker EXCEPT !.pc = "ended"]
    <3>1. [x \in Characters |-> NoImage] \in [Characters -> Images]
      BY DEF Images
    <3>2. <<>> \in Seq(SceneRow)
      OBVIOUS
    <3>3. new \in WorkerState /\ new.done = {}
      BY <3>1, <3>2 DEF NoWorker, WorkerState
    <3>. QED
      BY <2>3, <3>3 DEF WorkerEnds
  <2>4. CASE ClaimJob(w)
    <3>1. CASE worker' = [worker EXCEPT ![w].pc = "context"]
      <4>1. [worker[w] EXCEPT !.pc = "context"] \in WorkerState
        BY <2>1 DEF WorkerState
      <4>. QED
        BY <2>1, <3>1, <4>1 DEF WorkerState
    <3>. QED
      BY <2>3, <2>4, <3>1 DEF ClaimJob
  <2>5. CASE LoadContext(w)
    <3>. DEFINE new == [worker[w] EXCEPT !.pc = "plan", !.faces = reference]
    <3>1. worker' = [worker EXCEPT ![w] = new]
      BY <2>5 DEF LoadContext
    <3>2. new \in WorkerState /\ new.done = worker[w].done
          /\ new.plan = worker[w].plan
      BY <2>1 DEF WorkerState, TypeOK
    <3>. QED
      BY <2>1, <3>1, <3>2
  <2>6. CASE LoadSavedPlan(w)
    <3>1. PICK plan \in IF scenes # <<>> THEN {scenes} ELSE Plans :
            worker' = [worker EXCEPT ![w].pc = "references",
                         ![w].plan = plan, ![w].saved = (scenes # <<>>),
                         ![w].done = Completed(scenes)]
      BY <2>6 DEF LoadSavedPlan
    <3>2. plan \in Seq(SceneRow)
      BY <3>1, PlansCover DEF TypeOK
    <3>3. PICK done : done = Completed(scenes)
      OBVIOUS
    <3>4. done \subseteq DOMAIN plan /\ done \in SUBSET Nat
      <4>1. done \subseteq DOMAIN scenes
        BY <3>3 DEF Completed
      <4>2. CASE scenes # <<>>
        BY <3>1, <4>1, <4>2, <3>2
      <4>3. CASE scenes = <<>>
        BY <4>1, <4>3
      <4>. QED
        BY <4>2, <4>3
    <3>5. PICK saved \in BOOLEAN : saved = (scenes # <<>>)
      OBVIOUS
    <3>. DEFINE new == [worker[w] EXCEPT !.pc = "references", !.plan = plan,
                          !.saved = saved, !.done = done]
    <3>6. worker' = [worker EXCEPT ![w] = new]
      BY <3>1, <3>3, <3>5
    <3>7. new \in WorkerState /\ new.done = done /\ new.plan = plan
      BY <2>1, <3>2, <3>4 DEF WorkerState
    <3>. QED
      BY <3>4, <3>6, <3>7
  <2>7. CASE EnsureCharacterReference(w)
    <3>1. PICK x : worker' = [worker EXCEPT ![w].faces[x] = w]
      BY <2>7 DEF EnsureCharacterReference
    <3>. DEFINE new == [worker[w] EXCEPT !.faces[x] = w]
    <3>2. worker' = [worker EXCEPT ![w] = new]
      BY <3>1
    <3>3. [worker[w].faces EXCEPT ![x] = w] \in [Characters -> Images]
      BY <2>1 DEF WorkerState, Images
    <3>4. new \in WorkerState /\ new.done = worker[w].done
          /\ new.plan = worker[w].plan
      BY <2>1, <3>3 DEF WorkerState
    <3>. QED
      BY <2>1, <3>2, <3>4
  <2>8. CASE SavePlan(w) \/ StartPanel(w)
    <3>1. PICK pc \in {"panel", "draw"} :
            worker' = [worker EXCEPT ![w].pc = pc]
      BY <2>8 DEF SavePlan, StartPanel
    <3>2. [worker[w] EXCEPT !.pc = pc] \in WorkerState
      BY <2>1 DEF WorkerState
    <3>. QED
      BY <2>1, <3>1, <3>2 DEF WorkerState
  <2>9. CASE DrawPanel(w)
    <3>1. PICK i \in DOMAIN scenes :
            i = Min(Remaining(w)) /\ i \in DOMAIN worker[w].plan
      BY <2>9, RowChanges
    <3>. DEFINE new == [worker[w] EXCEPT !.pc = "panel", !.done = @ \cup {i}]
    <3>2. worker' = [worker EXCEPT ![w] = new]
      BY <2>9, <3>1 DEF DrawPanel
    <3>3. worker[w].done \cup {i} \in SUBSET Nat
      BY <2>1, <3>1 DEF WorkerState
    <3>4. new \in WorkerState /\ new.done = worker[w].done \cup {i}
          /\ new.plan = worker[w].plan
      BY <2>1, <3>3 DEF WorkerState
    <3>. QED
      BY <2>1, <3>1, <3>2, <3>4
  <2>10. CASE Succeed(w) \/ Fail(w) \/ WorkerCrash(w)
    BY <2>3, <2>10 DEF Succeed, Fail, WorkerCrash
  <2>. QED
    BY <2>4, <2>5, <2>6, <2>7, <2>8, <2>9, <2>10 DEF WorkerStep
<1>1. worker \in [Calls -> WorkerState]
  BY DEF TypeOK
<1>. QED
  BY <1>1 DEF TypeOK

\* A step leaves the scenes as they are, saves an accepted plan, or changes one
\* row.
LEMMA ScenesType ==
    ASSUME TypeOK, ScenesInv, FacesInv, [Next]_vars
    PROVE  scenes' \in Seq(SceneRow)
<1>1. ASSUME NEW w \in Calls, SavePlan(w)
      PROVE  scenes' \in Seq(SceneRow)
  BY <1>1 DEF SavePlan, TypeOK, WorkerState
<1>2. ASSUME NEW w \in Calls, StartPanel(w) \/ DrawPanel(w)
      PROVE  scenes' \in Seq(SceneRow)
  BY <1>2, RowChanges
<1>3. ASSUME scenes' = scenes
      PROVE  scenes' \in Seq(SceneRow)
  BY <1>3 DEF TypeOK
<1>. QED
  BY <1>1, <1>2, <1>3 DEF Next, HandlerStep, WorkerStep, PostReads,
     PostWrites, Launch, LaunchFails, MarkNotStarted, HandlerCrash, ClaimJob,
     LoadContext, LoadSavedPlan, EnsureCharacterReference, Succeed, Fail,
     WorkerCrash, OtherChapterEnsures, GetReadsStatus, GetReadsScenes,
     TryAgain, PageTurns, vars

\* Every step keeps the types.
LEMMA TypeStep ==
    ASSUME TypeOK, ScenesInv, FacesInv, [Next]_vars
    PROVE  TypeOK'
<1>1. scenes' \in Seq(SceneRow)
  BY ScenesType
<1>2. ASSUME NEW c \in Calls, PostReads(c) \/ HandlerStep(c) \/ HandlerCrash(c)
      PROVE  TypeOK'
  <2>1. /\ UNCHANGED <<scenes, reference, page, overlapped>>
        /\ crashes' \in 0 .. MaxCrashes
    BY <1>2, StoryboardConstantsOK
       DEF PostReads, HandlerStep, HandlerCrash, PostWrites, Launch,
       LaunchFails, MarkNotStarted, aside, Crash, TypeOK
  <2>2. job' \in Statuses
    BY <1>2 DEF PostReads, HandlerStep, HandlerCrash, PostWrites, Launch,
       LaunchFails, MarkNotStarted, TypeOK, Statuses
  <2>3. call' \in [Calls -> [pc : {"new", "write", "launch", "mark", "ended"},
                             seen : Statuses]]
    BY <1>2 DEF PostReads, HandlerStep, HandlerCrash, PostWrites, Launch,
       LaunchFails, MarkNotStarted, TypeOK, Statuses, CallGoes, NoCall
  <2>4. worker' = worker \/ worker' = [worker EXCEPT ![c].pc = "new"]
    BY <1>2 DEF PostReads, HandlerStep, HandlerCrash, PostWrites, Launch,
       LaunchFails, MarkNotStarted, Started
  <2>5. /\ worker' \in [Calls -> WorkerState]
        /\ \A w \in Calls : worker'[w].done \subseteq DOMAIN worker'[w].plan
    <3>1. [worker[c] EXCEPT !.pc = "new"] \in WorkerState
      BY DEF TypeOK, WorkerState
    <3>2. \A w \in Calls : /\ worker'[w].done = worker[w].done
                           /\ worker'[w].plan = worker[w].plan
      BY <2>4 DEF TypeOK, WorkerState
    <3>. QED
      BY <2>4, <3>1, <3>2 DEF TypeOK
  <2>. QED
    BY <2>1, <2>2, <2>3, <2>5 DEF TypeOK
<1>3. ASSUME NEW w \in Calls, WorkerStep(w) \/ WorkerCrash(w)
      PROVE  TypeOK'
  <2>1. /\ worker' \in [Calls -> WorkerState]
        /\ \A v \in Calls : worker'[v].done \subseteq DOMAIN worker'[v].plan
    BY <1>3, WorkerTypes
  <2>2. UNCHANGED <<call, page>> /\ crashes' \in 0 .. MaxCrashes
    <3>1. /\ call' = call /\ page' = page
          /\ \/ crashes' = crashes
             \/ crashes < MaxCrashes /\ crashes' = crashes + 1
      BY <1>3 DEF WorkerStep, WorkerCrash, ClaimJob,
         LoadContext, LoadSavedPlan, EnsureCharacterReference, SavePlan,
         StartPanel, DrawPanel, Succeed, Fail, Keeps, aside, Crash
    <3>. QED
      BY <3>1, StoryboardConstantsOK DEF TypeOK
  <2>3. job' \in Statuses /\ overlapped' \in BOOLEAN
    BY <1>3 DEF WorkerStep, WorkerCrash, ClaimJob,
       LoadContext, LoadSavedPlan, EnsureCharacterReference, SavePlan,
       StartPanel, DrawPanel, Succeed, Fail, Keeps, TypeOK, Statuses
  <2>4. \/ reference' = reference
        \/ \E x, y : reference' = [reference EXCEPT ![x] = y] /\ y \in Images
    <3>1. CASE EnsureCharacterReference(w)
      <4>1. PICK x : reference' = [reference EXCEPT
                                     ![x] = IF @ = NoImage THEN w ELSE @]
                     /\ x = Min(NoFace(w)) /\ reference[x] = NoImage
        BY <3>1 DEF EnsureCharacterReference, ReferenceFree
      <4>. QED
        BY <4>1 DEF Images
    <3>. QED
      BY <1>3, <3>1 DEF WorkerStep, WorkerCrash, ClaimJob, LoadContext,
         LoadSavedPlan, SavePlan, StartPanel, DrawPanel, Succeed, Fail
  <2>5. reference' \in [Characters -> Images]
    BY <2>4 DEF TypeOK
  <2>. QED
    BY <1>1, <2>1, <2>2, <2>3, <2>5 DEF TypeOK
<1>4. ASSUME NEW x \in Characters, OtherChapterEnsures(x)
      PROVE  TypeOK'
  BY <1>4 DEF OtherChapterEnsures, Keeps, aside, TypeOK, Images
<1>5. ASSUME GetReadsStatus \/ GetReadsScenes \/ TryAgain
      PROVE  TypeOK'
  BY <1>5 DEF GetReadsStatus, GetReadsScenes, TryAgain, PageTurns, TypeOK
<1>6. CASE UNCHANGED vars
  BY <1>6 DEF vars, aside, TypeOK
<1>. QED
  BY <1>2, <1>3, <1>4, <1>5, <1>6 DEF Next

-----------------------------------------------------------------------------
(* Steps.                                                                  *)

\* What a step may do to worker v without touching what ScenesInv says of it:
\* keep its place and its plan, or leave the part where it has one.
Aside(v) ==
    \/ /\ worker'[v].pc = worker[v].pc
       /\ worker'[v].plan = worker[v].plan
       /\ worker'[v].saved = worker[v].saved
       /\ worker'[v].done = worker[v].done
    \/ /\ worker'[v].pc \notin {"references", "panel", "draw"}
       /\ worker'[v].done \in {{}, worker[v].done}

Quiet == scenes' = scenes /\ \A v \in Calls : Aside(v)

\* The steps, sorted by what they do to scenes and workers.
LEMMA StepKinds ==
    ASSUME TypeOK, [Next]_vars
    PROVE  \/ Quiet
           \/ \E w \in Calls : \/ LoadSavedPlan(w) \/ SavePlan(w)
                               \/ StartPanel(w) \/ DrawPanel(w)
<1>1. ASSUME worker' = worker, scenes' = scenes PROVE Quiet
  BY <1>1 DEF Quiet, Aside
<1>2. ASSUME NEW w \in Calls, scenes' = scenes, WorkerEnds(w) PROVE Quiet
  <2>1. /\ worker'[w].pc = "ended" /\ worker'[w].done = {}
        /\ \A v \in Calls \ {w} : worker'[v] = worker[v]
    BY <1>2 DEF WorkerEnds, NoWorker, TypeOK
  <2>. QED
    BY <1>2, <2>1 DEF Quiet, Aside
<1>3. ASSUME NEW w \in Calls, NEW pc \in {"new", "context"}, scenes' = scenes,
             worker' = [worker EXCEPT ![w].pc = pc]
      PROVE  Quiet
  <2>1. /\ worker'[w].pc = pc /\ worker'[w].done = worker[w].done
        /\ \A v \in Calls \ {w} : worker'[v] = worker[v]
    BY <1>3 DEF TypeOK, WorkerState
  <2>. QED
    BY <1>3, <2>1 DEF Quiet, Aside
<1>4. ASSUME NEW c \in Calls, PostReads(c) \/ HandlerStep(c) \/ HandlerCrash(c)
      PROVE  Quiet
  BY <1>1, <1>3, <1>4 DEF PostReads, HandlerStep, HandlerCrash, PostWrites,
     Launch, LaunchFails, MarkNotStarted, Started
<1>5. ASSUME NEW w \in Calls, ClaimJob(w)
      PROVE  Quiet
  BY <1>2, <1>3, <1>5 DEF ClaimJob
<1>6. ASSUME NEW w \in Calls, LoadContext(w)
      PROVE  Quiet
  <2>1. /\ worker'[w].pc = "plan" /\ worker'[w].done = worker[w].done
        /\ \A v \in Calls \ {w} : worker'[v] = worker[v]
    BY <1>6 DEF LoadContext, TypeOK, WorkerState
  <2>. QED
    BY <1>6, <2>1 DEF Quiet, Aside, LoadContext
<1>7. ASSUME NEW w \in Calls, EnsureCharacterReference(w)
      PROVE  Quiet
  <2>1. PICK x : worker' = [worker EXCEPT ![w].faces[x] = w]
    BY <1>7 DEF EnsureCharacterReference
  <2>2. /\ worker'[w].pc = worker[w].pc /\ worker'[w].plan = worker[w].plan
        /\ worker'[w].saved = worker[w].saved
        /\ worker'[w].done = worker[w].done
        /\ \A v \in Calls \ {w} : worker'[v] = worker[v]
    BY <2>1 DEF TypeOK, WorkerState
  <2>. QED
    BY <1>7, <2>2 DEF Quiet, Aside, EnsureCharacterReference
<1>8. ASSUME NEW w \in Calls, Succeed(w) \/ Fail(w) \/ WorkerCrash(w)
      PROVE  Quiet
  BY <1>2, <1>8 DEF Succeed, Fail, WorkerCrash
<1>9. ASSUME NEW x \in Characters, OtherChapterEnsures(x)
      PROVE  Quiet
  BY <1>1, <1>9 DEF OtherChapterEnsures
<1>10. ASSUME GetReadsStatus \/ GetReadsScenes \/ TryAgain
       PROVE  Quiet
  BY <1>1, <1>10 DEF GetReadsStatus, GetReadsScenes, TryAgain, PageTurns
<1>11. CASE UNCHANGED vars
  BY <1>1, <1>11 DEF vars
<1>12. ASSUME NEW w \in Calls, WorkerStep(w) \/ WorkerCrash(w)
       PROVE  \/ Quiet \/ LoadSavedPlan(w) \/ SavePlan(w)
              \/ StartPanel(w) \/ DrawPanel(w)
  BY <1>5, <1>6, <1>7, <1>8, <1>12 DEF WorkerStep
<1>. QED
  BY <1>4, <1>9, <1>10, <1>11, <1>12 DEF Next

\* The place of a worker that plans, saves its plan or draws.
LEMMA WorkerMoves ==
    ASSUME TypeOK, NEW w \in Calls
    PROVE  /\ LoadSavedPlan(w) =>
                /\ worker'[w].pc = "references"
                /\ worker'[w].saved <=> scenes # <<>>
                /\ worker'[w].plan \in
                     IF scenes # <<>> THEN {scenes} ELSE Plans
                /\ worker'[w].done = Completed(scenes)
                /\ worker'[w].faces = worker[w].faces
                /\ \A v \in Calls \ {w} : worker'[v] = worker[v]
           /\ SavePlan(w) \/ StartPanel(w) =>
                /\ worker'[w].pc = IF SavePlan(w) THEN "panel" ELSE "draw"
                /\ worker'[w].plan = worker[w].plan
                /\ worker'[w].saved = worker[w].saved
                /\ worker'[w].done = worker[w].done
                /\ worker'[w].faces = worker[w].faces
                /\ \A v \in Calls \ {w} : worker'[v] = worker[v]
           /\ DrawPanel(w) =>
                /\ worker'[w].pc = "panel"
                /\ worker'[w].plan = worker[w].plan
                /\ worker'[w].saved = worker[w].saved
                /\ worker'[w].done = worker[w].done \cup {Min(Remaining(w))}
                /\ worker'[w].faces = worker[w].faces
                /\ \A v \in Calls \ {w} : worker'[v] = worker[v]
<1>0. worker \in [Calls -> WorkerState]
  BY DEF TypeOK
<1>1. ASSUME LoadSavedPlan(w)
      PROVE  /\ worker'[w].pc = "references"
             /\ worker'[w].saved <=> scenes # <<>>
             /\ worker'[w].plan \in IF scenes # <<>> THEN {scenes} ELSE Plans
             /\ worker'[w].done = Completed(scenes)
             /\ worker'[w].faces = worker[w].faces
             /\ \A v \in Calls \ {w} : worker'[v] = worker[v]
  <2>1. PICK plan \in IF scenes # <<>> THEN {scenes} ELSE Plans,
             saved \in {scenes # <<>>}, done \in {Completed(scenes)} :
          worker' = [worker EXCEPT ![w].pc = "references",
                       ![w].plan = plan, ![w].saved = saved,
                       ![w].done = done]
    BY <1>1 DEF LoadSavedPlan
  <2>2. /\ worker'[w].pc = "references" /\ worker'[w].saved = saved
        /\ worker'[w].plan = plan /\ worker'[w].done = done
        /\ worker'[w].faces = worker[w].faces
        /\ \A v \in Calls \ {w} : worker'[v] = worker[v]
    BY <1>0, <2>1 DEF WorkerState
  <2>. QED
    BY <2>1, <2>2
<1>2. ASSUME SavePlan(w) \/ StartPanel(w)
      PROVE  /\ worker'[w].pc = IF SavePlan(w) THEN "panel" ELSE "draw"
             /\ worker'[w].plan = worker[w].plan
             /\ worker'[w].saved = worker[w].saved
             /\ worker'[w].done = worker[w].done
             /\ worker'[w].faces = worker[w].faces
             /\ \A v \in Calls \ {w} : worker'[v] = worker[v]
  <2>1. \/ SavePlan(w) /\ worker' = [worker EXCEPT ![w].pc = "panel"]
        \/ ~SavePlan(w) /\ worker' = [worker EXCEPT ![w].pc = "draw"]
    BY <1>2 DEF SavePlan, StartPanel
  <2>. QED
    BY <1>0, <2>1 DEF WorkerState
<1>3. ASSUME DrawPanel(w)
      PROVE  /\ worker'[w].pc = "panel"
             /\ worker'[w].plan = worker[w].plan
             /\ worker'[w].saved = worker[w].saved
             /\ worker'[w].done = worker[w].done \cup {Min(Remaining(w))}
             /\ worker'[w].faces = worker[w].faces
             /\ \A v \in Calls \ {w} : worker'[v] = worker[v]
  <2>1. PICK i : i = Min(Remaining(w))
    OBVIOUS
  <2>2. worker' = [worker EXCEPT ![w].pc = "panel", ![w].done = @ \cup {i}]
    BY <1>3, <2>1 DEF DrawPanel
  <2>. QED
    BY <1>0, <2>1, <2>2 DEF WorkerState
<1>. QED
  BY <1>1, <1>2, <1>3

\* A quiet step keeps ScenesInv.
LEMMA ScenesFrame ==
    ASSUME ScenesInv, Quiet
    PROVE  ScenesInv'
<1>. USE DEF Quiet
<1>1. HasPanel' = HasPanel
  BY DEF HasPanel
<1>2. ASSUME NEW v \in Calls
      PROVE  /\ Drawing(v)' =>
                  /\ scenes' # <<>>
                  /\ DOMAIN worker'[v].plan = DOMAIN scenes'
                  /\ \A i \in DOMAIN scenes' :
                       worker'[v].plan[i].who = scenes'[i].who
             /\ worker'[v].pc = "references" /\ ~worker'[v].saved =>
                  worker'[v].plan \in Plans /\ worker'[v].done = {}
             /\ worker'[v].done \subseteq HasPanel'
             /\ worker'[v].pc = "draw" => Remaining(v)' # {}
  <2>1. Aside(v)
    OBVIOUS
  <2>2. CASE /\ worker'[v].pc = worker[v].pc
             /\ worker'[v].plan = worker[v].plan
             /\ worker'[v].saved = worker[v].saved
             /\ worker'[v].done = worker[v].done
    BY <1>1, <2>2 DEF ScenesInv, Drawing, Remaining, WorkerFits
  <2>3. CASE /\ worker'[v].pc \notin {"references", "panel", "draw"}
             /\ worker'[v].done \in {{}, worker[v].done}
    BY <1>1, <2>3 DEF ScenesInv, Drawing, WorkerFits
  <2>. QED
    BY <2>1, <2>2, <2>3 DEF Aside
<1>. QED
  BY <1>2 DEF ScenesInv, WorkerFits

\* A worker goes on with the saved plan or with one of its own.
LEMMA LoadFits ==
    ASSUME TypeOK, ScenesInv, NEW w \in Calls, LoadSavedPlan(w)
    PROVE  ScenesInv'
<1>1. /\ worker'[w].pc = "references"
      /\ worker'[w].saved <=> scenes # <<>>
      /\ worker'[w].plan \in IF scenes # <<>> THEN {scenes} ELSE Plans
      /\ worker'[w].done = Completed(scenes)
      /\ \A v \in Calls \ {w} : worker'[v] = worker[v]
      /\ scenes' = scenes
  BY WorkerMoves DEF LoadSavedPlan
<1>2. Completed(scenes) \subseteq HasPanel
  BY DEF Completed, HasPanel, ScenesInv, WorkerFits
<1>3. scenes = <<>> => Completed(scenes) = {}
  BY DEF Completed
<1>4. WorkerFits(w)'
  BY <1>1, <1>2, <1>3 DEF WorkerFits, Drawing, HasPanel
<1>5. \A v \in Calls \ {w} : WorkerFits(v)'
  BY <1>1 DEF ScenesInv, WorkerFits, Drawing, HasPanel, Remaining
<1>6. \A v \in Calls : WorkerFits(v)'
  BY <1>4, <1>5
<1>. QED
  BY <1>1, <1>6 DEF ScenesInv, WorkerFits

\* A plan is saved once, or was saved already.
LEMMA SaveFits ==
    ASSUME TypeOK, ScenesInv, NEW w \in Calls, SavePlan(w)
    PROVE  ScenesInv'
<1>1. /\ worker[w].pc = "references" /\ worker'[w].pc = "panel"
      /\ worker'[w].plan = worker[w].plan
      /\ worker'[w].done = worker[w].done
      /\ \A v \in Calls \ {w} : worker'[v] = worker[v]
  BY WorkerMoves DEF SavePlan
<1>2. CASE worker[w].saved /\ scenes' = scenes
  <2>1. WorkerFits(w)'
    BY <1>1, <1>2 DEF ScenesInv, WorkerFits, Drawing, HasPanel
  <2>2. \A v \in Calls \ {w} : WorkerFits(v)'
    BY <1>1, <1>2 DEF ScenesInv, WorkerFits, Drawing, HasPanel, Remaining
  <2>3. \A v \in Calls : WorkerFits(v)'
    BY <2>1, <2>2
  <2>. QED
    BY <1>2, <2>3 DEF ScenesInv, WorkerFits
<1>3. CASE ~worker[w].saved /\ scenes = <<>> /\ scenes' = worker[w].plan
  <2>1. worker[w].plan \in Plans /\ worker[w].done = {}
    BY <1>1, <1>3 DEF ScenesInv, WorkerFits
  <2>2. /\ scenes' # <<>> /\ Covers(scenes', Len(BuildTranscript))
        /\ \A i \in DOMAIN scenes' : scenes'[i].status = "PLANNED"
    BY <1>3, <2>1, PlansCover
  <2>3. WorkerFits(w)'
    BY <1>1, <1>3, <2>1, <2>2 DEF WorkerFits, Drawing
  <2>4. \A v \in Calls \ {w} : ~Drawing(v) /\ worker[v].done = {}
    BY <1>3 DEF ScenesInv, HasPanel, WorkerFits
  <2>5. \A v \in Calls \ {w} : WorkerFits(v)'
    BY <1>1, <2>4 DEF ScenesInv, WorkerFits, Drawing
  <2>6. \A v \in Calls : WorkerFits(v)'
    BY <2>3, <2>5
  <2>. QED
    BY <2>2, <2>6 DEF ScenesInv, WorkerFits
<1>. QED
  BY <1>2, <1>3 DEF SavePlan

\* A panel is started or drawn: its row keeps its place and loses nothing.
LEMMA DrawFits ==
    ASSUME TypeOK, ScenesInv, FacesInv, NEW w \in Calls,
           StartPanel(w) \/ DrawPanel(w)
    PROVE  ScenesInv' /\ HasPanel \subseteq HasPanel'
<1>1. PICK i \in DOMAIN scenes :
        /\ i = Min(Remaining(w))
        /\ scenes' \in Seq(SceneRow) /\ DOMAIN scenes' = DOMAIN scenes
        /\ \A j \in DOMAIN scenes \ {i} : scenes'[j] = scenes[j]
        /\ scenes'[i].from = scenes[i].from
        /\ scenes'[i].to = scenes[i].to
        /\ scenes'[i].who = scenes[i].who
        /\ StartPanel(w) => /\ scenes'[i].status = "GENERATING"
                            /\ scenes'[i].panel = scenes[i].panel
        /\ DrawPanel(w) => /\ scenes'[i].status = "SUCCEEDED"
                           /\ scenes'[i].panel # NoPanel
  BY RowChanges
<1>2. \A j \in DOMAIN scenes :
        /\ scenes'[j].from = scenes[j].from /\ scenes'[j].to = scenes[j].to
        /\ scenes'[j].who = scenes[j].who
  BY <1>1
<1>3. Len(scenes') = Len(scenes)
  BY <1>1 DEF TypeOK
<1>4. scenes # <<>> <=> scenes' # <<>>
  BY <1>1, <1>3 DEF TypeOK
<1>5. HasPanel \subseteq HasPanel' /\ (DrawPanel(w) => i \in HasPanel')
  BY <1>1 DEF HasPanel
<1>6. \A j \in DOMAIN scenes' :
        scenes'[j].status = "SUCCEEDED" => scenes'[j].panel # NoPanel
  <2>1. scenes'[i].status = "SUCCEEDED" => scenes'[i].panel # NoPanel
    BY <1>1
  <2>. QED
    BY <1>1, <2>1 DEF ScenesInv, WorkerFits
<1>7. scenes' # <<>> => Covers(scenes', Len(BuildTranscript))
  <2>. DEFINE lines == Len(BuildTranscript)
  <2>1. SUFFICES ASSUME Covers(scenes, lines), scenes # <<>>
                 PROVE  Covers(scenes', lines)
    BY <1>4 DEF ScenesInv, WorkerFits
  <2>. HIDE DEF lines
  <2>2. PICK k \in Nat : k = Len(scenes) /\ DOMAIN scenes = 1 .. k /\ k # 0
    BY <2>1 DEF TypeOK
  <2>3. /\ scenes[k].to = lines
        /\ \A j \in 1 .. k :
             /\ scenes[j].from = IF j = 1 THEN 1 ELSE scenes[j - 1].to + 1
             /\ scenes[j].to \in scenes[j].from .. lines
    BY <2>1, <2>2 DEF Covers, Last
  <2>4. \A j \in 1 .. k : j # 1 => scenes'[j - 1].to = scenes[j - 1].to
    BY <1>2, <2>2
  <2>5. \A j \in 1 .. k :
          /\ scenes'[j].from = IF j = 1 THEN 1 ELSE scenes'[j - 1].to + 1
          /\ scenes'[j].to \in scenes'[j].from .. lines
    BY <1>2, <2>2, <2>3, <2>4
  <2>6. scenes'[k].to = lines
    BY <1>2, <2>2, <2>3
  <2>. QED
    BY <1>1, <1>3, <1>4, <2>1, <2>2, <2>5, <2>6 DEF Covers, Last
<1>8. \A v \in Calls \ {w} : WorkerFits(v)'
  <2>1. \A v \in Calls \ {w} : worker'[v] = worker[v]
    BY WorkerMoves
  <2>. QED
    BY <1>1, <1>2, <1>4, <1>5, <2>1
       DEF ScenesInv, WorkerFits, Drawing, Remaining
<1>9. WorkerFits(w)'
  <2>1. /\ worker[w].pc \in {"panel", "draw"}
        /\ worker'[w].pc = IF StartPanel(w) THEN "draw" ELSE "panel"
        /\ worker'[w].plan = worker[w].plan
        /\ worker'[w].done = IF StartPanel(w) THEN worker[w].done
                                              ELSE worker[w].done \cup {i}
        /\ StartPanel(w) => Remaining(w) # {}
    BY <1>1, WorkerMoves DEF StartPanel, DrawPanel, SavePlan
  <2>2. worker'[w].done \subseteq HasPanel'
    BY <1>5, <2>1 DEF ScenesInv, WorkerFits
  <2>3. Drawing(w)
    BY <2>1 DEF Drawing
  <2>4. /\ scenes' # <<>>
        /\ DOMAIN worker'[w].plan = DOMAIN scenes'
        /\ \A j \in DOMAIN scenes' : worker'[w].plan[j].who = scenes'[j].who
    BY <1>1, <1>2, <1>4, <2>1, <2>3 DEF ScenesInv, WorkerFits
  <2>5. worker'[w].pc = "draw" => Remaining(w)' # {}
    BY <2>1 DEF Remaining
  <2>. QED
    BY <2>1, <2>2, <2>4, <2>5 DEF WorkerFits
<1>10. \A v \in Calls : WorkerFits(v)'
  BY <1>8, <1>9
<1>. QED
  BY <1>5, <1>6, <1>7, <1>10 DEF ScenesInv, WorkerFits

\* Every step keeps ScenesInv.
LEMMA ScenesStep ==
    ASSUME TypeOK, ScenesInv, FacesInv, [Next]_vars
    PROVE  ScenesInv'
  BY StepKinds, ScenesFrame, LoadFits, SaveFits, DrawFits

-----------------------------------------------------------------------------
(* Faces.                                                                  *)

\* Worker v keeps its faces and does not start to draw, or gives them up.
KeepsFaces(v) ==
    \/ /\ worker'[v].faces = worker[v].faces
       /\ worker'[v].pc \in {"panel", "draw"} =>
            worker[v].pc \in {"panel", "draw"}
    \/ /\ \A x \in Characters : worker'[v].faces[x] = NoImage
       /\ worker'[v].pc \notin {"panel", "draw"}

Faceless ==
    UNCHANGED <<scenes, reference>> /\ \A v \in Calls : KeepsFaces(v)

\* The steps, sorted by what they do to faces and panels.
LEMMA FaceKinds ==
    ASSUME TypeOK, [Next]_vars
    PROVE  \/ Faceless
           \/ \E w \in Calls :
                \/ LoadContext(w) \/ EnsureCharacterReference(w)
                \/ SavePlan(w) \/ StartPanel(w) \/ DrawPanel(w)
           \/ \E x \in Characters : OtherChapterEnsures(x)
<1>1. ASSUME worker' = worker, UNCHANGED <<scenes, reference>>
      PROVE  Faceless
  BY <1>1 DEF Faceless, KeepsFaces
<1>2. ASSUME NEW w \in Calls, UNCHANGED <<scenes, reference>>, WorkerEnds(w)
      PROVE  Faceless
  <2>1. /\ worker'[w].pc = "ended"
        /\ \A x \in Characters : worker'[w].faces[x] = NoImage
        /\ \A v \in Calls \ {w} : worker'[v] = worker[v]
    BY <1>2 DEF WorkerEnds, NoWorker, TypeOK
  <2>. QED
    BY <1>2, <2>1 DEF Faceless, KeepsFaces
<1>3. ASSUME NEW w \in Calls, NEW pc \in {"new", "context"},
             UNCHANGED <<scenes, reference>>,
             worker' = [worker EXCEPT ![w].pc = pc]
      PROVE  Faceless
  <2>1. /\ worker'[w].pc = pc /\ worker'[w].faces = worker[w].faces
        /\ \A v \in Calls \ {w} : worker'[v] = worker[v]
    BY <1>3 DEF TypeOK, WorkerState
  <2>. QED
    BY <1>3, <2>1 DEF Faceless, KeepsFaces
<1>4. ASSUME NEW c \in Calls, PostReads(c) \/ HandlerStep(c) \/ HandlerCrash(c)
      PROVE  Faceless
  BY <1>1, <1>3, <1>4 DEF PostReads, HandlerStep, HandlerCrash, PostWrites,
     Launch, LaunchFails, MarkNotStarted, Started
<1>5. ASSUME NEW w \in Calls, ClaimJob(w)
      PROVE  Faceless
  BY <1>2, <1>3, <1>5 DEF ClaimJob
<1>6. ASSUME NEW w \in Calls, LoadSavedPlan(w)
      PROVE  Faceless
  <2>1. /\ worker'[w].pc = "references"
        /\ worker'[w].faces = worker[w].faces
        /\ \A v \in Calls \ {w} : worker'[v] = worker[v]
    BY <1>6, WorkerMoves
  <2>. QED
    BY <1>6, <2>1 DEF Faceless, KeepsFaces, LoadSavedPlan
<1>7. ASSUME NEW w \in Calls, Succeed(w) \/ Fail(w) \/ WorkerCrash(w)
      PROVE  Faceless
  BY <1>2, <1>7 DEF Succeed, Fail, WorkerCrash
<1>8. ASSUME GetReadsStatus \/ GetReadsScenes \/ TryAgain
      PROVE  Faceless
  BY <1>1, <1>8 DEF GetReadsStatus, GetReadsScenes, TryAgain, PageTurns
<1>9. CASE UNCHANGED vars
  BY <1>1, <1>9 DEF vars
<1>10. ASSUME NEW w \in Calls, WorkerStep(w) \/ WorkerCrash(w)
       PROVE  \/ Faceless \/ LoadContext(w) \/ EnsureCharacterReference(w)
              \/ SavePlan(w) \/ StartPanel(w) \/ DrawPanel(w)
  BY <1>5, <1>6, <1>7, <1>10 DEF WorkerStep
<1>. QED
  BY <1>4, <1>8, <1>9, <1>10 DEF Next

\* References are added and never replaced; a step that leaves workers and
\* panels with what fits keeps FacesInv.
LEMMA FacesFrame ==
    ASSUME TypeOK, FacesInv,
           \A x \in Characters :
               reference[x] # NoImage => reference'[x] = reference[x],
           \A w \in Calls : FaceFits(w)' \/ KeepsFaces(w),
           \A i \in HasPanel' :
               \/ /\ i \in HasPanel
                  /\ scenes'[i].panel = scenes[i].panel
                  /\ scenes'[i].who = scenes[i].who
               \/ PanelFits(i)'
    PROVE  FacesInv'
<1>1. ASSUME NEW w \in Calls
      PROVE  FaceFits(w)'
  <2>1. FaceFits(w)
    BY DEF FacesInv, FaceFits, PanelFits
  <2>2. CASE KeepsFaces(w)
    BY <2>1, <2>2 DEF KeepsFaces, FaceFits, NoFace
  <2>. QED
    BY <2>2
<1>2. ASSUME NEW i \in HasPanel'
      PROVE  PanelFits(i)'
  <2>1. CASE /\ i \in HasPanel
             /\ scenes'[i].panel = scenes[i].panel
             /\ scenes'[i].who = scenes[i].who
    <3>0. scenes[i] \in SceneRow
      BY <2>1 DEF HasPanel, TypeOK
    <3>1. scenes[i].who \subseteq Characters
      BY <3>0 DEF SceneRow
    <3>2. PanelFits(i)
      BY <2>1 DEF FacesInv, PanelFits, FaceFits
    <3>3. \A x \in scenes[i].who : reference'[x] = reference[x]
      BY <3>1, <3>2 DEF PanelFits
    <3>. QED
      BY <2>1, <3>2, <3>3 DEF PanelFits, Restrict
  <2>. QED
    BY <2>1
<1>. QED
  BY <1>1, <1>2 DEF FacesInv, FaceFits, PanelFits

\* Every step keeps FacesInv.
LEMMA FacesStep ==
    ASSUME TypeOK, ScenesInv, FacesInv, [Next]_vars
    PROVE  FacesInv'
<1>1. CASE Faceless
  BY <1>1, FacesFrame DEF Faceless, HasPanel
<1>2. ASSUME NEW w \in Calls, LoadContext(w)
      PROVE  FacesInv'
  <2>1. /\ worker'[w].pc = "plan" /\ worker'[w].faces = reference
        /\ \A v \in Calls \ {w} : worker'[v] = worker[v]
        /\ UNCHANGED <<scenes, reference>>
    BY <1>2 DEF LoadContext, TypeOK, WorkerState
  <2>2. FaceFits(w)' /\ \A v \in Calls \ {w} : KeepsFaces(v)
    BY <2>1 DEF FaceFits, KeepsFaces
  <2>3. \A v \in Calls : FaceFits(v)' \/ KeepsFaces(v)
    BY <2>2
  <2>. QED
    BY <2>1, <2>3, FacesFrame DEF HasPanel
<1>3. ASSUME NEW w \in Calls, EnsureCharacterReference(w)
      PROVE  FacesInv'
  <2>1. PICK x : /\ x = Min(NoFace(w)) /\ NoFace(w) # {}
                 /\ reference[x] = NoImage
                 /\ reference' = [reference EXCEPT
                                    ![x] = IF @ = NoImage THEN w ELSE @]
                 /\ worker' = [worker EXCEPT ![w].faces[x] = w]
    BY <1>3 DEF EnsureCharacterReference, ReferenceFree
  <2>2. x \in Characters
    <3>1. NoFace(w) \in SUBSET Nat
      BY DEF NoFace, Characters
    <3>2. Min(NoFace(w)) \in NoFace(w)
      BY <2>1, <3>1, MinIs
    <3>. QED
      BY <2>1, <3>2 DEF NoFace
  <2>3. /\ reference'[x] = w
        /\ \A y \in Characters \ {x} : reference'[y] = reference[y]
    BY <2>1, <2>2 DEF TypeOK
  <2>4. /\ worker'[w].pc = worker[w].pc /\ worker'[w].faces[x] = w
        /\ \A y \in Characters \ {x} :
             worker'[w].faces[y] = worker[w].faces[y]
        /\ \A v \in Calls \ {w} : worker'[v] = worker[v]
    BY <2>1, <2>2 DEF TypeOK, WorkerState
  <2>5. worker[w].pc = "references" /\ scenes' = scenes
    BY <1>3 DEF EnsureCharacterReference
  <2>6. FaceFits(w)' /\ \A v \in Calls \ {w} : KeepsFaces(v)
    BY <2>3, <2>4, <2>5 DEF FaceFits, KeepsFaces, FacesInv, PanelFits
  <2>7. \A v \in Calls : FaceFits(v)' \/ KeepsFaces(v)
    BY <2>6
  <2>8. \A y \in Characters :
          reference[y] # NoImage => reference'[y] = reference[y]
    BY <2>1, <2>3
  <2>. QED
    BY <2>5, <2>7, <2>8, FacesFrame DEF HasPanel
<1>4. ASSUME NEW w \in Calls, SavePlan(w)
      PROVE  FacesInv'
  <2>1. /\ worker'[w].faces = worker[w].faces /\ NoFace(w) = {}
        /\ \A v \in Calls \ {w} : worker'[v] = worker[v]
        /\ reference' = reference
    BY <1>4, WorkerMoves DEF SavePlan
  <2>2. FaceFits(w)' /\ \A v \in Calls \ {w} : KeepsFaces(v)
    BY <2>1 DEF FaceFits, KeepsFaces, NoFace, FacesInv, PanelFits
  <2>3. \A v \in Calls : FaceFits(v)' \/ KeepsFaces(v)
    BY <2>2
  <2>4. scenes' = scenes \/ HasPanel' = {}
    BY <1>4, PlansCover DEF SavePlan, ScenesInv, HasPanel, WorkerFits
  <2>5. \A i \in HasPanel' : /\ i \in HasPanel
                             /\ scenes'[i].panel = scenes[i].panel
                             /\ scenes'[i].who = scenes[i].who
    BY <2>4 DEF HasPanel
  <2>. QED
    BY <2>1, <2>3, <2>5, FacesFrame
<1>5. ASSUME NEW w \in Calls, StartPanel(w) \/ DrawPanel(w)
      PROVE  FacesInv'
  <2>1. PICK i \in DOMAIN scenes :
          /\ DOMAIN scenes' = DOMAIN scenes
          /\ \A j \in DOMAIN scenes \ {i} : scenes'[j] = scenes[j]
          /\ scenes'[i].who = scenes[i].who
          /\ StartPanel(w) => scenes'[i].panel = scenes[i].panel
          /\ DrawPanel(w) =>
               scenes'[i].panel =
                 [by |-> w, faces |-> Restrict(worker[w].faces, scenes[i].who)]
    BY <1>5, RowChanges
  <2>2. /\ worker'[w].faces = worker[w].faces
        /\ worker[w].pc \in {"panel", "draw"}
        /\ \A v \in Calls \ {w} : worker'[v] = worker[v]
        /\ reference' = reference
    BY <1>5, WorkerMoves DEF StartPanel, DrawPanel
  <2>3. \A v \in Calls : KeepsFaces(v)
    BY <2>2 DEF KeepsFaces
  <2>4. CASE StartPanel(w)
    <3>1. \A j \in HasPanel' : /\ j \in HasPanel
                               /\ scenes'[j].panel = scenes[j].panel
                               /\ scenes'[j].who = scenes[j].who
      BY <2>1, <2>4 DEF HasPanel
    <3>. QED
      BY <2>2, <2>3, <3>1, FacesFrame
  <2>5. CASE DrawPanel(w)
    <3>1. \A x \in Characters : /\ reference[x] # NoImage
                                /\ worker[w].faces[x] = reference[x]
      BY <2>2 DEF FacesInv, NoFace, FaceFits, PanelFits
    <3>0. scenes[i] \in SceneRow
      BY <2>1 DEF TypeOK
    <3>2. scenes[i].who \subseteq Characters
      BY <3>0 DEF SceneRow
    <3>3. Restrict(worker[w].faces, scenes[i].who)
            = Restrict(reference, scenes[i].who)
      BY <3>1, <3>2 DEF Restrict
    <3>4. PanelFits(i)'
      BY <2>1, <2>2, <2>5, <3>1, <3>2, <3>3 DEF PanelFits
    <3>5. \A j \in HasPanel' \ {i} : /\ j \in HasPanel
                                     /\ scenes'[j].panel = scenes[j].panel
                                     /\ scenes'[j].who = scenes[j].who
      BY <2>1 DEF HasPanel
    <3>6. \A j \in HasPanel' : \/ /\ j \in HasPanel
                                  /\ scenes'[j].panel = scenes[j].panel
                                  /\ scenes'[j].who = scenes[j].who
                               \/ PanelFits(j)'
      BY <3>4, <3>5
    <3>. QED
      BY <2>2, <2>3, <3>6, FacesFrame
  <2>. QED
    BY <1>5, <2>4, <2>5
<1>6. ASSUME NEW x \in Characters, OtherChapterEnsures(x)
      PROVE  FacesInv'
  <2>1. /\ reference[x] = NoImage
        /\ reference' = [reference EXCEPT ![x] = OtherChapter]
        /\ UNCHANGED <<scenes, worker>>
    BY <1>6 DEF OtherChapterEnsures, ReferenceFree
  <2>2. \A y \in Characters :
          reference[y] # NoImage => reference'[y] = reference[y]
    BY <2>1 DEF TypeOK
  <2>3. \A v \in Calls : KeepsFaces(v)
    BY <2>1 DEF KeepsFaces
  <2>. QED
    BY <2>1, <2>2, <2>3, FacesFrame DEF HasPanel
<1>. QED
  BY <1>1, <1>2, <1>3, <1>4, <1>5, <1>6, FaceKinds

-----------------------------------------------------------------------------
(* What is shown.                                                          *)

\* No step takes the panels of a complete storyboard away.
LEMMA PanelsGrow ==
    ASSUME TypeOK, ScenesInv, FacesInv, [Next]_vars, EveryPanel(scenes)
    PROVE  EveryPanel(scenes')
<1>1. scenes # <<>>
  BY DEF EveryPanel
<1>2. CASE scenes' = scenes
  BY <1>2
<1>3. ASSUME NEW w \in Calls, StartPanel(w) \/ DrawPanel(w)
      PROVE  EveryPanel(scenes')
  <2>1. DOMAIN scenes' = DOMAIN scenes /\ HasPanel \subseteq HasPanel'
    BY <1>3, RowChanges, DrawFits
  <2>2. scenes' # <<>>
    <3>1. scenes \in Seq(SceneRow) /\ scenes' \in Seq(SceneRow)
      BY <1>3, RowChanges DEF TypeOK
    <3>. QED
      BY <1>1, <2>1, <3>1
  <2>3. \A i \in DOMAIN scenes : i \in HasPanel'
    BY <2>1 DEF EveryPanel, HasPanel
  <2>. QED
    BY <2>1, <2>2, <2>3 DEF EveryPanel, HasPanel
<1>. QED
  BY <1>1, <1>2, <1>3, StepKinds DEF Quiet, LoadSavedPlan, SavePlan

\* The last panel is there when the job is reported SUCCEEDED.
LEMMA SucceedShows ==
    ASSUME TypeOK, ScenesInv, NEW w \in Calls, Succeed(w)
    PROVE  EveryPanel(scenes)
<1>1. worker[w].pc = "panel" /\ Remaining(w) = {}
  BY DEF Succeed
<1>2. Drawing(w)
  BY <1>1 DEF Drawing
<1>3. scenes # <<>> /\ DOMAIN scenes \subseteq worker[w].done
  BY <1>1, <1>2 DEF ScenesInv, Remaining, WorkerFits
<1>4. worker[w].done \subseteq HasPanel
  BY DEF ScenesInv, WorkerFits
<1>. QED
  BY <1>3, <1>4 DEF EveryPanel, HasPanel

\* Every step keeps ShownInv.
LEMMA ShownStep ==
    ASSUME TypeOK, ScenesInv, FacesInv, ShownInv, [Next]_vars
    PROVE  ShownInv'
<1>1. EveryPanel(scenes) => EveryPanel(scenes')
  BY PanelsGrow
<1>2. \/ job' = job \/ job' # "SUCCEEDED" \/ EveryPanel(scenes)
  <2>1. \/ job' = job \/ job' # "SUCCEEDED"
        \/ \E w \in Calls : Succeed(w)
    BY DEF Next, HandlerStep, WorkerStep, PostReads, PostWrites, Launch,
       LaunchFails, MarkNotStarted, HandlerCrash, ClaimJob, LoadContext,
       LoadSavedPlan, EnsureCharacterReference, SavePlan, StartPanel,
       DrawPanel, Fail, WorkerCrash, OtherChapterEnsures, GetReadsStatus,
       GetReadsScenes, TryAgain, PageTurns, vars
  <2>. QED
    BY <2>1, SucceedShows
<1>3. \/ page' = page \/ page' \notin {"reading", "incomplete"}
      \/ job = "SUCCEEDED" /\ page' = "reading"
      \/ GetReadsScenes
  BY DEF Next, HandlerStep, WorkerStep, PostReads, PostWrites, Launch,
     LaunchFails, MarkNotStarted, HandlerCrash, ClaimJob, LoadContext,
     LoadSavedPlan, EnsureCharacterReference, SavePlan, StartPanel,
     DrawPanel, Succeed, Fail, WorkerCrash, OtherChapterEnsures,
     GetReadsStatus, TryAgain, PageTurns, Keeps, aside, vars
<1>4. CASE GetReadsScenes
  <2>1. page = "reading" /\ EveryPanel(scenes) /\ page' = "complete"
    BY <1>4 DEF GetReadsScenes, PageTurns, ShownInv
  <2>. QED
    BY <1>1, <2>1 DEF ShownInv
<1>. QED
  BY <1>1, <1>2, <1>3, <1>4 DEF ShownInv

-----------------------------------------------------------------------------
(* Workers alone.                                                          *)

\* No worker but those that work goes on, except for one that claims the job.
LEMMA WorkersGoOn ==
    ASSUME TypeOK, [Next]_vars, ~overlapped'
    PROVE  /\ ~overlapped
           /\ \/ \A v \in Calls :
                   worker'[v].pc \in Working => worker[v].pc \in Working
              \/ \E w \in Calls :
                   /\ \A v \in Calls : worker[v].pc \notin Working
                   /\ \A v \in Calls \ {w} : worker'[v] = worker[v]
<1>. DEFINE GoesOn(v) == worker'[v].pc \in Working => worker[v].pc \in Working
<1>1. ASSUME NEW w \in Calls, WorkerEnds(w)
      PROVE  \A v \in Calls : GoesOn(v)
  <2>1. /\ worker'[w].pc = "ended"
        /\ \A v \in Calls \ {w} : worker'[v] = worker[v]
    BY <1>1 DEF WorkerEnds, NoWorker, TypeOK
  <2>. QED
    BY <2>1 DEF Working
<1>2. ASSUME NEW w \in Calls, Started(w) \/ UNCHANGED worker
      PROVE  \A v \in Calls : GoesOn(v)
  <2>1. CASE Started(w)
    <3>1. /\ worker'[w].pc = "new"
          /\ \A v \in Calls \ {w} : worker'[v] = worker[v]
      BY <2>1 DEF Started, TypeOK, WorkerState
    <3>. QED
      BY <3>1 DEF Working
  <2>. QED
    BY <1>2, <2>1
<1>3. ASSUME NEW c \in Calls, PostReads(c) \/ HandlerStep(c) \/ HandlerCrash(c)
      PROVE  ~overlapped /\ \A v \in Calls : GoesOn(v)
  <2>1. overlapped' = overlapped /\ (Started(c) \/ UNCHANGED worker)
    BY <1>3 DEF PostReads, HandlerStep, HandlerCrash, PostWrites, Launch,
       LaunchFails, MarkNotStarted
  <2>. QED
    BY <1>2, <2>1
<1>4. ASSUME NEW w \in Calls, ClaimJob(w), ~WorkerEnds(w)
      PROVE  /\ ~overlapped /\ \A v \in Calls : worker[v].pc \notin Working
             /\ \A v \in Calls \ {w} : worker'[v] = worker[v]
  <2>1. /\ overlapped' =
             (overlapped \/ \E v \in Calls : worker[v].pc \in Working)
        /\ worker' = [worker EXCEPT ![w].pc = "context"]
    BY <1>4 DEF ClaimJob
  <2>2. \A v \in Calls \ {w} : worker'[v] = worker[v]
    BY <2>1 DEF TypeOK
  <2>. QED
    BY <2>1, <2>2
<1>5. ASSUME NEW w \in Calls, ClaimJob(w), WorkerEnds(w)
      PROVE  ~overlapped
  BY <1>5 DEF ClaimJob, TypeOK
<1>6. ASSUME NEW w \in Calls,
             LoadContext(w) \/ LoadSavedPlan(w) \/ EnsureCharacterReference(w)
               \/ SavePlan(w) \/ StartPanel(w) \/ DrawPanel(w)
      PROVE  ~overlapped /\ \A v \in Calls : GoesOn(v)
  <2>1. worker[w].pc \in Working /\ overlapped' = overlapped
    BY <1>6 DEF LoadContext, LoadSavedPlan, EnsureCharacterReference, SavePlan,
       StartPanel, DrawPanel, Working, Keeps
  <2>2. \A v \in Calls \ {w} : worker'[v] = worker[v]
    <3>1. CASE LoadContext(w)
      BY <3>1 DEF LoadContext, TypeOK
    <3>2. CASE EnsureCharacterReference(w)
      <4>1. PICK x : worker' = [worker EXCEPT ![w].faces[x] = w]
        BY <3>2 DEF EnsureCharacterReference
      <4>. QED
        BY <4>1 DEF TypeOK
    <3>. QED
      BY <1>6, <3>1, <3>2, WorkerMoves
  <2>. QED
    BY <2>1, <2>2
<1>7. ASSUME NEW w \in Calls, Succeed(w) \/ Fail(w) \/ WorkerCrash(w)
      PROVE  ~overlapped /\ \A v \in Calls : GoesOn(v)
  <2>1. overlapped' = overlapped /\ WorkerEnds(w)
    BY <1>7 DEF Succeed, Fail, WorkerCrash, Keeps
  <2>. QED
    BY <1>1, <2>1
<1>8. ASSUME \/ \E x \in Characters : OtherChapterEnsures(x)
             \/ GetReadsStatus \/ GetReadsScenes \/ TryAgain \/ UNCHANGED vars
      PROVE  ~overlapped /\ \A v \in Calls : GoesOn(v)
  <2>1. overlapped' = overlapped /\ UNCHANGED worker
    BY <1>8 DEF OtherChapterEnsures, GetReadsStatus, GetReadsScenes, TryAgain,
       PageTurns, Keeps, vars
  <2>. QED
    BY <2>1
<1>9. ASSUME NEW w \in Calls, WorkerStep(w) \/ WorkerCrash(w)
      PROVE  /\ ~overlapped
             /\ \/ \A v \in Calls : GoesOn(v)
                \/ /\ \A v \in Calls : worker[v].pc \notin Working
                   /\ \A v \in Calls \ {w} : worker'[v] = worker[v]
  BY <1>1, <1>4, <1>5, <1>6, <1>7, <1>9 DEF WorkerStep
<1>. HIDE DEF GoesOn
<1>10. /\ ~overlapped
       /\ \/ \A v \in Calls : GoesOn(v)
          \/ \E w \in Calls :
               /\ \A v \in Calls : worker[v].pc \notin Working
               /\ \A v \in Calls \ {w} : worker'[v] = worker[v]
  BY <1>3, <1>8, <1>9 DEF Next
<1>. QED
  BY <1>10 DEF GoesOn

\* A panel that is there is drawn again only after workers have overlapped.
LEMMA AlonePanels ==
    ASSUME TypeOK, ScenesInv, FacesInv, AloneInv, ~overlapped,
           NEW w \in Calls, StartPanel(w) \/ DrawPanel(w)
    PROVE  /\ \A i \in HasPanel :
                /\ scenes'[i].panel = scenes[i].panel
                /\ scenes'[i].status = "SUCCEEDED"
           /\ \A i \in HasPanel' : scenes'[i].status = "SUCCEEDED"
           /\ HasPanel' \subseteq worker'[w].done
           /\ worker[w].pc \in Working
<1>1. PICK i \in DOMAIN scenes :
        /\ i = Min(Remaining(w)) /\ i \notin worker[w].done
        /\ DOMAIN scenes' = DOMAIN scenes
        /\ \A j \in DOMAIN scenes \ {i} : scenes'[j] = scenes[j]
        /\ StartPanel(w) => scenes'[i].panel = scenes[i].panel
        /\ DrawPanel(w) => scenes'[i].status = "SUCCEEDED"
  BY RowChanges
<1>2. worker[w].pc \in {"panel", "draw"}
  BY DEF StartPanel, DrawPanel
<1>3. HasPanel \subseteq worker[w].done /\ i \notin HasPanel
  BY <1>1, <1>2 DEF AloneInv
<1>4. \A j \in HasPanel :
        scenes'[j] = scenes[j] /\ scenes[j].status = "SUCCEEDED"
  BY <1>1, <1>3 DEF AloneInv, HasPanel
<1>5. HasPanel' \subseteq HasPanel \cup {i}
      /\ (StartPanel(w) => HasPanel' \subseteq HasPanel)
  BY <1>1, <1>3 DEF HasPanel
<1>6. HasPanel' \subseteq worker'[w].done
  <2>1. CASE StartPanel(w)
    BY <1>3, <1>5, <2>1, WorkerMoves
  <2>2. CASE DrawPanel(w)
    BY <1>1, <1>3, <1>5, <2>2, WorkerMoves
  <2>. QED
    BY <2>1, <2>2
<1>7. \A j \in HasPanel' : scenes'[j].status = "SUCCEEDED"
  BY <1>1, <1>4, <1>5
<1>. QED
  BY <1>2, <1>4, <1>6, <1>7 DEF Working

\* Every step keeps AloneInv.
LEMMA AloneStep ==
    ASSUME TypeOK, ScenesInv, FacesInv, AloneInv, [Next]_vars
    PROVE  AloneInv'
<1>. SUFFICES ASSUME ~overlapped' PROVE AloneInv'
  BY DEF AloneInv
<1>1. ~overlapped
  BY WorkersGoOn
<1>2. \A v, w \in Calls :
        worker'[v].pc \in Working /\ worker'[w].pc \in Working => v = w
  BY <1>1, WorkersGoOn DEF AloneInv
<1>. DEFINE Draws(v) == worker[v].pc \in {"references", "panel", "draw"}
<1>3. \A v \in Calls : Draws(v) => worker[v].pc \in Working
  BY DEF Working
<1>4. \A v, w \in Calls : Draws(v) /\ worker[w].pc \in Working => v = w
  BY <1>1, <1>3 DEF AloneInv
<1>5. ASSUME NEW w \in Calls, worker[w].pc \in Working,
             \A v \in Calls \ {w} : worker'[v] = worker[v],
             HasPanel' \subseteq worker'[w].done
      PROVE  \A v \in Calls : Draws(v)' => HasPanel' \subseteq worker'[v].done
  <2>1. \A v \in Calls \ {w} : ~Draws(v)'
    BY <1>4, <1>5
  <2>. QED
    BY <1>5, <2>1
<1>6. CASE Quiet
  <2>1. HasPanel' = HasPanel /\ scenes' = scenes
    BY <1>6 DEF Quiet, HasPanel
  <2>2. \A v \in Calls : Draws(v)' => HasPanel' \subseteq worker'[v].done
    BY <1>1, <1>6, <2>1 DEF Quiet, Aside, AloneInv
  <2>. QED
    BY <1>1, <1>2, <2>1, <2>2 DEF AloneInv
<1>7. ASSUME NEW w \in Calls, LoadSavedPlan(w)
      PROVE  AloneInv'
  <2>1. /\ worker[w].pc \in Working /\ scenes' = scenes
        /\ worker'[w].done = Completed(scenes)
        /\ \A v \in Calls \ {w} : worker'[v] = worker[v]
    BY <1>7, WorkerMoves DEF LoadSavedPlan, Working
  <2>2. HasPanel' = HasPanel /\ HasPanel \subseteq Completed(scenes)
    BY <1>1, <2>1 DEF HasPanel, AloneInv, Completed
  <2>3. \A v \in Calls : Draws(v)' => HasPanel' \subseteq worker'[v].done
    BY <1>5, <2>1, <2>2
  <2>. QED
    BY <1>1, <1>2, <2>1, <2>2, <2>3 DEF AloneInv
<1>8. ASSUME NEW w \in Calls, SavePlan(w)
      PROVE  AloneInv'
  <2>1. /\ worker[w].pc = "references" /\ worker[w].pc \in Working
        /\ worker'[w].done = worker[w].done
        /\ \A v \in Calls \ {w} : worker'[v] = worker[v]
    BY <1>8, WorkerMoves DEF SavePlan, Working
  <2>2. scenes' = scenes \/ HasPanel' = {}
    BY <1>8, PlansCover DEF SavePlan, ScenesInv, HasPanel, WorkerFits
  <2>3. HasPanel' \subseteq worker'[w].done
    BY <1>1, <2>1, <2>2 DEF AloneInv, HasPanel
  <2>4. \A i \in HasPanel' : scenes'[i].status = "SUCCEEDED"
    BY <1>1, <2>2 DEF AloneInv, HasPanel
  <2>5. \A v \in Calls : Draws(v)' => HasPanel' \subseteq worker'[v].done
    BY <1>5, <2>1, <2>3
  <2>. QED
    BY <1>2, <2>4, <2>5 DEF AloneInv
<1>9. ASSUME NEW w \in Calls, StartPanel(w) \/ DrawPanel(w)
      PROVE  AloneInv'
  <2>1. /\ \A i \in HasPanel' : scenes'[i].status = "SUCCEEDED"
        /\ HasPanel' \subseteq worker'[w].done
        /\ worker[w].pc \in Working
    BY <1>1, <1>9, AlonePanels
  <2>2. \A v \in Calls \ {w} : worker'[v] = worker[v]
    BY <1>9, WorkerMoves
  <2>3. \A v \in Calls : Draws(v)' => HasPanel' \subseteq worker'[v].done
    BY <1>5, <2>1, <2>2
  <2>. QED
    BY <1>2, <2>1, <2>3 DEF AloneInv
<1>. QED
  BY <1>6, <1>7, <1>8, <1>9, StepKinds

\* A step of workers that were never two keeps the panels.
LEMMA PanelsStayStep ==
    ASSUME TypeOK, ScenesInv, FacesInv, AloneInv, ~overlapped, [Next]_vars
    PROVE  PanelsStay
<1>1. CASE scenes' = scenes
  BY <1>1 DEF PanelsStay
<1>2. ASSUME NEW w \in Calls, SavePlan(w)
      PROVE  PanelsStay
  BY <1>1, <1>2 DEF SavePlan, PanelsStay
<1>3. ASSUME NEW w \in Calls, StartPanel(w) \/ DrawPanel(w)
      PROVE  PanelsStay
  BY <1>3, AlonePanels DEF PanelsStay, HasPanel
<1>. QED
  BY <1>1, <1>2, <1>3, StepKinds DEF Quiet, LoadSavedPlan

-----------------------------------------------------------------------------
(* The theorems.                                                           *)

\* Nothing is planned, drawn or shown at the start.
LEMMA InitSInv == Init => SInv
<1>. SUFFICES ASSUME Init PROVE SInv
  OBVIOUS
<1>1. TypeOK
  BY InitTypeOK
<1>2. HasPanel = {} /\ scenes = <<>>
  BY DEF Init, HasPanel
<1>3. \A w \in Calls : worker[w] = NoWorker
  BY DEF Init
<1>4. \A w \in Calls : /\ worker[w].pc = "none" /\ worker[w].done = {}
                       /\ \A x \in Characters : worker[w].faces[x] = NoImage
  BY <1>3 DEF NoWorker
<1>5. ScenesInv
  BY <1>2, <1>4 DEF ScenesInv, Drawing, WorkerFits
<1>6. ShownInv
  BY DEF Init, ShownInv
<1>7. FacesInv
  BY <1>2, <1>4 DEF FacesInv, FaceFits, PanelFits
<1>8. AloneInv
  BY <1>2, <1>4 DEF AloneInv, Working
<1>. QED
  BY <1>1, <1>5, <1>6, <1>7, <1>8 DEF SInv

\* SInv is inductive.
LEMMA Always == Spec => []SInv
<1>1. SInv /\ [Next]_vars => SInv'
  BY TypeStep, ScenesStep, ShownStep, FacesStep, AloneStep DEF SInv
<1>. QED
  BY <1>1, InitSInv, PTL DEF Spec

\* The state stays well typed: a worker's plan and the saved scenes are rows
\* with lines and known characters, and an image comes from a worker, an
\* author's photo or another chapter.
THEOREM StoryboardTypes == Spec => []TypeOK
<1>1. SInv => TypeOK
  BY DEF SInv
<1>. QED
  BY <1>1, Always, PTL

\* The lines of the saved scenes: each line in one of them, in order.
LEMMA LinesInOrder ==
    ASSUME SInv, scenes # <<>>
    PROVE  /\ \A n \in 1 .. Len(BuildTranscript) :
                \E i \in DOMAIN scenes : n \in LinesShown(i)
           /\ \A i, j \in DOMAIN scenes : i < j =>
                \A m \in LinesShown(i), n \in LinesShown(j) : m < n
<1>. DEFINE lines == Len(BuildTranscript)
<1>1. Covers(scenes, lines) /\ scenes \in Seq(SceneRow)
  BY DEF SInv, ScenesInv, TypeOK, WorkerFits
<1>2. PICK k \in Nat : k = Len(scenes)
  BY <1>1
<1>. HIDE DEF lines
<1>3. /\ DOMAIN scenes = 1 .. k
      /\ \A i \in 1 .. k : scenes[i].from \in Nat /\ scenes[i].to \in Nat
      /\ \A i, j \in 1 .. k : i < j => scenes[i].to < scenes[j].from
      /\ \A n \in 1 .. lines :
           \E i \in 1 .. k : n \in scenes[i].from .. scenes[i].to
  BY <1>1, <1>2, CoverOrder
<1>4. \A n \in 1 .. lines : \E i \in DOMAIN scenes : n \in LinesShown(i)
  BY <1>3 DEF LinesShown, lines
<1>5. ASSUME NEW i \in DOMAIN scenes, NEW j \in DOMAIN scenes, i < j,
             NEW m \in LinesShown(i), NEW n \in LinesShown(j)
      PROVE  m < n
  <2>1. /\ m \in scenes[i].from .. scenes[i].to
        /\ n \in scenes[j].from .. scenes[j].to
    BY DEF LinesShown
  <2>2. scenes[i].to < scenes[j].from
    BY <1>3, <1>5
  <2>. QED
    BY <1>3, <2>1, <2>2
<1>. QED
  BY <1>4, <1>5 DEF lines

\* A storyboard that reports SUCCEEDED has every panel, and its scenes show
\* the chapter's lines, each once and in order; no page is left with a gap.
\* However often it was retried, by however many workers at once, and whatever
\* plans the planner answers.
THEOREM FinishedIsComplete == Spec => []SucceededIsComplete
<1>1. ASSUME SInv PROVE SucceededIsComplete
  <2>1. page # "incomplete"
    BY <1>1 DEF SInv, ShownInv
  <2>2. ASSUME job = "SUCCEEDED" PROVE EveryPanel(scenes) /\ scenes # <<>>
    BY <1>1, <2>2 DEF SInv, ShownInv, EveryPanel
  <2>. QED
    BY <1>1, <2>1, <2>2, LinesInOrder DEF SucceededIsComplete
<1>. QED
  BY <1>1, Always, PTL

\* A panel shows every character of its scene with the image the story keeps
\* for it, whichever chapter or worker stored that image.
THEOREM OneFace == Spec => []OneFacePerCharacter
<1>1. SInv => OneFacePerCharacter
  BY DEF SInv, FacesInv, HasPanel, OneFacePerCharacter, FaceFits, PanelFits
<1>. QED
  BY <1>1, Always, PTL

\* A finished panel is drawn again only after two workers were on the job.
THEOREM FinishedPanelsStay == Spec => PanelsAreKept
<1>1. SInv /\ [Next]_vars => [~overlapped => PanelsStay]_vars
  BY PanelsStayStep DEF SInv
<1>. QED
  BY <1>1, Always, PTL DEF Spec, PanelsAreKept
=============================================================================
