---------------------------- MODULE FramingProofs ----------------------------
(***************************************************************************)
(* What TLAPS proves of Framing, for any processes, deltas, snapshots and  *)
(* bounds.                                                                 *)
(*                                                                         *)
(* A process computes the next revision long before it saves it, so the    *)
(* inductive invariant has to say what that revision is worth meanwhile:   *)
(* it follows from the revisions its author had read (Ready), which save   *)
(* finds to be all there are, or refuses.  The journal then says of every  *)
(* revision what the properties say of the last one, and that at most one  *)
(* can ever be published (Journal): two publishers, or one of them and     *)
(* Doctor, work for the same revision.  Of a publication the invariant     *)
(* says what each state of its journal stands for (Effects), and what the  *)
(* process that holds its lock has done beyond it (Publishing).            *)
(*                                                                         *)
(* That nothing unseen is superseded needs a second invariant on top of    *)
(* that one (Attribution): where the statements of a plan that is not      *)
(* saved yet are from.  It rests on what one delta does to the items of a  *)
(* plan (Evolves), by induction over its operations; a rebase leaves it    *)
(* operations on keys nobody has touched and identifiers it made up.       *)
(***************************************************************************)
EXTENDS Framing, FiniteSetTheorems, WellFoundedInduction, TLAPS

Fields == {"revision", "items", "probe", "split", "intent", "grounded", "publication"}
Locked == {"resume", "effect", "unlink", "index", "turn"}

Shape ==
    /\ IsSequence(history) /\ events \in Seq(Nat) /\ basis \in Seq(Nat)
    /\ Len(basis) = Len(history)
    /\ pointer \in 0..Len(history)
    /\ repository \in Snapshots
    /\ DOMAIN proc = Actors
    /\ \A p \in Actors : DOMAIN proc[p] = DOMAIN Resting /\ proc[p].at \in Places
    /\ \A p \in Actors : proc[p].base \in Nat

Locks ==
    /\ lock \in Actors \cup {Nobody} /\ pubLock \in Actors \cup {Nobody}
    /\ \A p \in Actors : lock = p <=> proc[p].at \in {"event", "pointer"}
    /\ \A p \in Actors : pubLock = p <=> proc[p].at \in Locked

(* Every revision has one event at most, and the last one none before SaveEvent. *)
Recorded ==
    /\ \A n \in DOMAIN events : events[n] \in DOMAIN history
    /\ \A n \in 1..(Len(events) - 1) : events[n] < events[n + 1]
    /\ \A p \in Actors : At(p, "event") =>
          history # <<>> /\ \A n \in DOMAIN events : events[n] < Len(history)

(* The revision numbered n, and what may come after it. *)
WellMade(n) ==
    LET plan == history[n] IN
    /\ DOMAIN plan = Fields /\ plan.revision = n
    /\ Consistent(plan) /\ BindsWhatWasShown(plan)
    /\ plan.grounded \in 0..(n - 1)
    /\ plan.grounded # 0 => plan.intent # 0
    /\ plan.publication # 0 =>
          /\ n = Len(history) /\ n - 1 \in DOMAIN history
          /\ plan.publication = n - 1
          /\ plan.grounded # 0 /\ history[n - 1].grounded # 0
    /\ plan.grounded # 0 /\ n # Len(history) =>
          n + 1 = Len(history) /\ history[n + 1].publication # 0

Journal == \A n \in DOMAIN history : WellMade(n)

Publishable(r) ==
    r \in DOMAIN history /\ history[r].grounded # 0 /\ history[r].publication = 0

(* The revision a process carries follows from what its author had read. *)
Shown(plan) ==
    /\ plan.intent # 0 => <<"intent", plan.intent>> \in confirmed
    /\ plan.grounded # 0 => <<"grounded", plan.grounded>> \in confirmed

Carries(p) == proc[p].next # <<>> \/ proc[p].at \in {"save", "plan", "list", "import"}

Ready(p) ==
    Carries(p) =>
        /\ proc[p].read \in 0..Len(history)
        /\ Follows(SubSeq(history, 1, proc[p].read), proc[p].next)
        /\ Shown(proc[p].next)

(* The delta a process may have to merge was written on some revision. *)
Written(p) ==
    At(p, "merge") \/ proc[p].ops # <<>> =>
        proc[p].base \in DOMAIN history /\ proc[p].ops \in Contributions(history[proc[p].base])

(* A commit whose destination is there, and whose staged file may be. *)
Linked(r) ==
    \/ publication.state = "staged" /\ r \in planFiles
    \/ publication.state = "plan_committed" /\ marker = "ours"

(* A step of the publication whose effect is there. *)
PlanTidied == "plan" \in staged => "plan" \in leftover
Effected(r) ==
    /\ publication.state = "staged" => r \in planFiles /\ PlanTidied
    /\ publication.state = "plan_committed" => marker = "ours" /\ staged \subseteq leftover
    /\ publication.state = "marker_committed" => listed = r /\ indexed
    /\ publication.state = "indexed" => draft = "materialized"

Publishing(p) ==
    /\ proc[p].at \in Locked \cup {"journal", "plan", "list", "import"} =>
          /\ Publishable(proc[p].read)
          /\ Carries(p) => proc[p].next.publication = proc[p].read
    /\ proc[p].at \in {"plan", "list"} => indexed
    /\ At(p, "list") => proc[p].read \in planFiles
    /\ At(p, "import") => IsOutThere(proc[p].read)
    /\ At(p, "save") /\ proc[p].next.publication # 0 =>
          Publishable(proc[p].next.publication) /\ IsOutThere(proc[p].next.publication)
    /\ proc[p].at \in Locked =>
          publication.state # "none" /\ publication.revision = proc[p].read
    /\ proc[p].at \in {"effect", "unlink", "index", "turn"} => publication.state # "materialized"
    /\ At(p, "index") => publication.state = "marker_committed" /\ listed = proc[p].read
    /\ At(p, "unlink") => Linked(proc[p].read)
    /\ At(p, "turn") => Effected(proc[p].read)

(* What the state of the publication journal stands for. *)
Effects ==
    /\ publication.state \in {"plan_committed", "marker_committed", "indexed", "materialized"} =>
          publication.revision \in planFiles /\ PlanTidied
    /\ publication.state \in {"marker_committed", "indexed", "materialized"} =>
          marker = "ours" /\ staged \subseteq leftover
    /\ publication.state \in {"indexed", "materialized"} =>
          listed = publication.revision /\ indexed
    /\ publication.state = "materialized" => draft = "materialized" \/ publication.failed

Artifacts ==
    /\ DOMAIN publication = DOMAIN NoPublication
    /\ publication.state \in {"none", "prepared", "staged", "plan_committed",
                              "marker_committed", "indexed", "materialized"}
    /\ publication.state # "none" => Publishable(publication.revision)
    /\ marker \in {"none", "ours", "foreign"} /\ indexed \in BOOLEAN
    /\ draft \in {"draft", "publishing", "recovery_required", "materialized"}
    /\ staged \subseteq {"plan", "marker"}
    /\ \A r \in planFiles : Publishable(r)
    /\ indexed => marker = "ours"
    /\ history # <<>> /\ Latest.publication # 0 => IsOutThere(Latest.publication)

IInv ==
    /\ Shape /\ Locks /\ Recorded /\ Journal
    /\ \A p \in Actors : Ready(p) /\ Written(p) /\ Publishing(p)
    /\ Effects /\ Artifacts

-----------------------------------------------------------------------------
(* Sequences. *)

(* A revision more leaves the ones before it as they were. *)
LEMMA Appended ==
    ASSUME NEW s, IsSequence(s), NEW x
    PROVE  /\ IsSequence(Append(s, x))
           /\ Len(s) \in Nat /\ DOMAIN s = 1..Len(s)
           /\ Len(Append(s, x)) = Len(s) + 1
           /\ DOMAIN Append(s, x) = 1..(Len(s) + 1)
           /\ \A n \in DOMAIN s : Append(s, x)[n] = s[n]
           /\ Append(s, x)[Len(s) + 1] = x
           /\ \A r \in 0..Len(s) : SubSeq(Append(s, x), 1, r) = SubSeq(s, 1, r)
<1> DEFINE S == Range(s) \cup {x}
           t == Append(s, x)
<1>1. s \in Seq(S)
  BY DEF IsSequence
<1>2. /\ t \in Seq(S) /\ Len(t) = Len(s) + 1
      /\ Len(s) \in Nat /\ DOMAIN s = 1..Len(s) /\ DOMAIN t = 1..(Len(s) + 1)
      /\ \A n \in DOMAIN s : t[n] = s[n]
      /\ t[Len(s) + 1] = x
  BY <1>1
<1>3. \A n \in 1..Len(t) : t[n] \in Range(t)
  BY <1>2 DEF Range
<1>4. IsSequence(t)
  BY <1>2, <1>3 DEF IsSequence
<1>5. ASSUME NEW r \in 0..Len(s) PROVE SubSeq(t, 1, r) = SubSeq(s, 1, r)
  <2>1. /\ SubSeq(t, 1, r) = [n \in 1..r |-> t[n]]
        /\ SubSeq(s, 1, r) = [n \in 1..r |-> s[n]]
    BY <1>1, <1>2, <1>5
  <2>2. \A n \in 1..r : t[n] = s[n]
    BY <1>2, <1>5
  <2> QED
    BY <2>1, <2>2
<1> QED
  BY <1>2, <1>4, <1>5

LEMMA Whole ==
    ASSUME NEW s, IsSequence(s)
    PROVE  SubSeq(s, 1, Len(s)) = s
BY DEF IsSequence

LEMMA Unstarted ==
    ASSUME NEW s, IsSequence(s)
    PROVE  SubSeq(s, 1, 0) = <<>> /\ (s = <<>> <=> Len(s) = 0)
BY DEF IsSequence

-----------------------------------------------------------------------------
(* Revisions. *)

(* What a merged delta leaves alone. *)
LEMMA MergedKeeps ==
    ASSUME NEW base, NEW current, DOMAIN current = Fields, NEW ops,
           NEW plan \in Merged(base, current, ops)
    PROVE  /\ DOMAIN plan = Fields /\ plan.revision = current.revision + 1
           /\ plan.intent = current.intent /\ plan.grounded = current.grounded
           /\ plan.publication = current.publication
           /\ current.grounded = 0 /\ current.publication = 0
           /\ Consistent(plan)
<1> DEFINE rebased == IF base = current THEN ops ELSE Rebased(base, current, ops)
<1>1. plan = AppliedDelta(current, rebased) /\ Accepts(current, rebased) /\ Consistent(plan)
  BY DEF Merged
<1> QED
  BY <1>1 DEF AppliedDelta, Accepts, Fields

(* The last revision, in a journal that has one. *)
LEMMA LatestIs ==
    ASSUME Shape, history # <<>>
    PROVE  /\ Len(history) \in DOMAIN history /\ Len(history) \in Nat \ {0}
           /\ Latest = history[Len(history)] /\ LastOf(history) = Latest
           /\ DOMAIN history = 1..Len(history)
BY DEF Shape, IsSequence, Latest, LastOf

(* At most one revision can be published. *)
LEMMA OnePublishable ==
    ASSUME Shape, Journal, NEW r, NEW s, Publishable(r), Publishable(s)
    PROVE  r = s
<1>1. DOMAIN history = 1..Len(history) /\ Len(history) \in Nat
  BY DEF Shape, IsSequence
<1>2. WellMade(r) /\ WellMade(s) /\ r \in 1..Len(history) /\ s \in 1..Len(history)
  BY <1>1 DEF Journal, Publishable
<1>3. r # Len(history) => r + 1 = Len(history) /\ history[Len(history)].publication # 0
  BY <1>2 DEF WellMade, Publishable
<1>4. s # Len(history) => s + 1 = Len(history) /\ history[Len(history)].publication # 0
  BY <1>2 DEF WellMade, Publishable
<1>5. history[r].publication = 0 /\ history[s].publication = 0
  BY DEF Publishable
<1>6. r = Len(history) <=> s = Len(history)
  <2>1. ~(r # Len(history) /\ s = Len(history))
    BY <1>3, <1>5
  <2>2. ~(s # Len(history) /\ r = Len(history))
    BY <1>4, <1>5
  <2> QED
    BY <2>1, <2>2
<1>7. r \in Int /\ s \in Int
  BY <1>1, <1>2
<1>8. r # Len(history) => r + 1 = s + 1
  BY <1>3, <1>4, <1>6
<1> QED
  BY <1>6, <1>7, <1>8

(* What follows a well made journal continues it. *)
LEMMA JournalGrows ==
    ASSUME Shape, Journal, NEW plan, Follows(history, plan), Shown(plan),
           history' = Append(history, plan), confirmed' = confirmed
    PROVE  Journal'
<1> PICK len \in Nat : len = Len(history)
  BY DEF Shape, IsSequence
<1>1. /\ IsSequence(history') /\ len \in Nat /\ DOMAIN history = 1..len
      /\ Len(history') = len + 1 /\ DOMAIN history' = 1..(len + 1)
      /\ \A n \in DOMAIN history : history'[n] = history[n]
      /\ history'[len + 1] = plan
  BY Appended DEF Shape
<1>2. /\ DOMAIN plan = Fields /\ plan.revision = len + 1 /\ Consistent(plan)
      /\ plan.grounded \in 0..len
      /\ plan.grounded # 0 => /\ plan.intent # 0
                              /\ plan.grounded \in DOMAIN history
                              /\ Substance(plan) = Substance(history[plan.grounded])
      /\ plan.publication # 0 => /\ plan.publication = len /\ len # 0
                                 /\ plan.grounded # 0 /\ history[len].grounded # 0
      /\ len # 0 /\ history[len].grounded # 0 =>
            plan.publication # 0 /\ history[len].publication = 0
  <2>1. CASE history = <<>>
    <3>1. PICK s \in Snapshots : plan = NewPlan(s)
      BY <2>1 DEF Follows
    <3>2. len = 0
      BY <1>1, <2>1
    <3> QED
      BY <3>1, <3>2 DEF NewPlan, Fields, Consistent, Active
  <2>2. CASE history # <<>>
    <3>1. /\ len \in DOMAIN history /\ len \in Nat \ {0} /\ LastOf(history) = history[len]
      BY <2>2, LatestIs
    <3> DEFINE last == history[len]
    <3>2. WellMade(len)
      BY <3>1 DEF Journal
    <3>3. /\ DOMAIN last = Fields /\ last.revision = len /\ Consistent(last)
          /\ last.grounded \in 0..(len - 1)
          /\ last.grounded # 0 => /\ last.intent # 0
                                  /\ Substance(last) = Substance(history[last.grounded])
          /\ last.publication # 0 => last.grounded # 0
      BY <3>2 DEF WellMade, BindsWhatWasShown
    <3>4. CASE IsConfirmation(history, plan)
      <4>1. PICK kind \in {"intent", "grounded"} :
              CanStabilize(last, kind) /\ plan = Stabilized(last, kind)
        BY <3>1, <3>4 DEF IsConfirmation
      <4>2. last.grounded = 0 /\ last.publication = 0
        BY <3>3, <4>1 DEF CanStabilize
      <4>3. /\ DOMAIN plan = Fields /\ plan.revision = len + 1 /\ plan.publication = 0
            /\ plan.items = last.items /\ plan.probe = last.probe /\ plan.split = last.split
        BY <3>1, <3>3, <4>1, <4>2 DEF Stabilized, Fields
      <4>4. Consistent(plan)
        BY <3>3, <4>3 DEF Consistent
      <4>5. CASE kind = "intent"
        <5>1. plan.grounded = 0
          BY <3>3, <4>1, <4>2, <4>5 DEF Stabilized, Fields
        <5> QED
          BY <3>1, <4>2, <4>3, <4>4, <5>1
      <4>6. CASE kind = "grounded"
        <5>1. plan.grounded = len /\ plan.intent = last.intent
          BY <3>1, <3>3, <4>1, <4>6 DEF Stabilized, Fields
        <5>2. last.intent # 0
          BY <4>1, <4>6 DEF CanStabilize, CanStabilizeGroundedPlan, IsGrounded
        <5>3. Substance(plan) = Substance(last)
          BY <4>3, <5>1 DEF Substance
        <5> QED
          BY <3>1, <4>2, <4>3, <4>4, <5>1, <5>2, <5>3
      <4> QED
        BY <4>1, <4>5, <4>6
    <3>5. CASE IsPublication(history, plan)
      <4>1. last.grounded # 0 /\ last.publication = 0 /\ plan = Published(last)
        BY <3>1, <3>5 DEF IsPublication
      <4>2. /\ DOMAIN plan = Fields /\ plan.revision = len + 1 /\ plan.publication = len
            /\ plan.items = last.items /\ plan.probe = last.probe /\ plan.split = last.split
            /\ plan.intent = last.intent /\ plan.grounded = last.grounded
        BY <3>1, <3>3, <4>1 DEF Published, Fields
      <4>3. Consistent(plan) /\ Substance(plan) = Substance(last)
        BY <3>3, <4>2 DEF Consistent, Substance
      <4>4. last.grounded \in DOMAIN history /\ last.grounded \in 0..len
        BY <1>1, <3>1, <3>3, <4>1
      <4> QED
        BY <3>1, <3>3, <4>1, <4>2, <4>3, <4>4
    <3>6. CASE IsContribution(history, plan)
      <4>1. PICK base, ops : plan \in Merged(base, last, ops)
        BY <3>1, <3>6 DEF IsContribution
      <4>2. /\ DOMAIN plan = Fields /\ plan.revision = last.revision + 1
            /\ plan.grounded = 0 /\ plan.publication = 0 /\ last.grounded = 0
            /\ Consistent(plan)
        BY <3>3, <4>1, MergedKeeps
      <4> QED
        BY <3>1, <3>3, <4>2
    <3> QED
      BY <2>2, <3>4, <3>5, <3>6 DEF Follows
  <2> QED
    BY <2>1, <2>2
<1>3. \A n \in DOMAIN history : history[n].publication = 0 /\ (history[n].grounded # 0 => n = len)
  <2>1. SUFFICES ASSUME NEW n \in DOMAIN history
                 PROVE  history[n].publication = 0 /\ (history[n].grounded # 0 => n = len)
    OBVIOUS
  <2>2. WellMade(n) /\ WellMade(len) /\ n \in 1..len
    BY <1>1, <2>1 DEF Journal
  <2>3. len # 0
    BY <1>1, <2>2
  <2>4. history[len].publication = 0
    BY <1>2, <2>2, <2>3 DEF WellMade
  <2> QED
    BY <2>2, <2>4 DEF WellMade
<1>4. ASSUME NEW n \in DOMAIN history PROVE WellMade(n)'
  <2>1. /\ WellMade(n) /\ n \in 1..len /\ history'[n] = history[n]
        /\ history[n].publication = 0 /\ (history[n].grounded # 0 => n = len)
    BY <1>1, <1>3, <1>4 DEF Journal
  <2>2. history[n].grounded # 0 =>
           history'[history[n].grounded] = history[history[n].grounded]
    <3>1. history[n].grounded # 0 => history[n].grounded \in DOMAIN history
      BY <1>1, <2>1 DEF WellMade
    <3> QED
      BY <1>1, <3>1
  <2> PICK kept : kept = history[n]
    OBVIOUS
  <2>3. BindsWhatWasShown(kept)'
    BY <2>1, <2>2 DEF WellMade, BindsWhatWasShown
  <2>4. history[n].grounded # 0 =>
           n + 1 = Len(history') /\ history'[n + 1].publication # 0
    BY <1>1, <1>2, <2>1
  <2> QED
    BY <2>1, <2>3, <2>4 DEF WellMade
<1>5. WellMade(len + 1)'
  <2>1. plan.grounded # 0 => history'[plan.grounded] = history[plan.grounded]
    BY <1>1, <1>2
  <2>2. BindsWhatWasShown(plan)'
    BY <1>1, <1>2, <2>1 DEF BindsWhatWasShown, Shown
  <2>3. len # 0 => len \in DOMAIN history' /\ history'[len] = history[len]
    BY <1>1
  <2> QED
    BY <1>1, <1>2, <2>2, <2>3 DEF WellMade
<1> QED
  BY <1>1, <1>4, <1>5 DEF Journal

-----------------------------------------------------------------------------
(* What a step of a process does to proc. *)

Steps(p) ==
    /\ DOMAIN proc' = Actors
    /\ \A q \in Actors \ {p} : proc'[q] = proc[q]
    /\ DOMAIN proc'[p] = DOMAIN Resting
    /\ proc'[p].at \in Places /\ proc'[p].base \in Nat

LEMMA GoesTo ==
    ASSUME Shape, NEW p \in Actors, NEW place \in Places,
           proc' = [proc EXCEPT ![p].at = place]
    PROVE  /\ Steps(p) /\ proc'[p].at = place
           /\ proc'[p].ops = proc[p].ops /\ proc'[p].base = proc[p].base
           /\ proc'[p].read = proc[p].read /\ proc'[p].next = proc[p].next
BY DEF Shape, Steps, Resting

LEMMA Begins ==
    ASSUME Shape, NEW p \in Actors, NEW new, DOMAIN new = DOMAIN Resting,
           new.at \in Places, new.base \in Nat,
           proc' = [proc EXCEPT ![p] = new]
    PROVE  Steps(p) /\ proc'[p] = new
BY DEF Shape, Steps

LEMMA Rests ==
    ASSUME Shape, NEW p \in Actors, Rest(p)
    PROVE  Steps(p) /\ proc'[p] = Resting
BY DEF Shape, Steps, Rest, Resting, Places

LEMMA StaysTyped ==
    ASSUME Shape, NEW p \in Actors, Steps(p)
    PROVE  /\ DOMAIN proc' = Actors
           /\ \A q \in Actors : DOMAIN proc'[q] = DOMAIN Resting /\ proc'[q].at \in Places
           /\ \A q \in Actors : proc'[q].base \in Nat
<1>1. ASSUME NEW q \in Actors
      PROVE  DOMAIN proc'[q] = DOMAIN Resting /\ proc'[q].at \in Places /\ proc'[q].base \in Nat
  BY <1>1 DEF Shape, Steps
<1> QED
  BY <1>1 DEF Steps

LEMMA StaysPut ==
    ASSUME Shape, NEW p \in Actors, proc' = proc
    PROVE  Steps(p) /\ proc'[p] = proc[p]
BY DEF Shape, Steps

-----------------------------------------------------------------------------
(* What no step takes back. *)

Grows ==
    /\ \A n \in DOMAIN history : n \in DOMAIN history' /\ history'[n] = history[n]
    /\ \A r \in 0..Len(history) :
          r \in 0..Len(history') /\ SubSeq(history', 1, r) = SubSeq(history, 1, r)
    /\ confirmed \subseteq confirmed'
    /\ planFiles \subseteq planFiles'
    /\ marker = "ours" => marker' = "ours"
    /\ indexed => indexed'
    /\ listed' # listed => Publishable(listed')

LEMMA GrowsWithout ==
    ASSUME Shape, UNCHANGED <<history, planFiles, marker, indexed, listed>>,
           confirmed \subseteq confirmed'
    PROVE  Grows
BY DEF Grows

LEMMA PublishableStays ==
    ASSUME Grows, NEW r, Publishable(r)
    PROVE  Publishable(r)'
BY DEF Grows, Publishable

LEMMA OutThereStays ==
    ASSUME Shape, Journal, Grows, NEW r, Publishable(r), IsOutThere(r)
    PROVE  IsOutThere(r)'
<1>1. listed' = r
  BY OnePublishable DEF Grows, IsOutThere
<1> QED
  BY <1>1 DEF Grows, IsOutThere

LEMMA ReadyStays ==
    ASSUME Grows, NEW p \in Actors, Ready(p), Carries(p)' => Carries(p),
           proc'[p].read = proc[p].read, proc'[p].next = proc[p].next
    PROVE  Ready(p)'
<1>1. SUFFICES ASSUME Carries(p)
               PROVE  /\ (proc[p].read \in 0..Len(history'))
                      /\ Follows(SubSeq(history', 1, proc[p].read), proc[p].next)
                      /\ proc[p].next.intent # 0 => <<"intent", proc[p].next.intent>> \in confirmed'
                      /\ proc[p].next.grounded # 0 => <<"grounded", proc[p].next.grounded>> \in confirmed'
  BY DEF Ready, Shown
<1>2. /\ proc[p].read \in 0..Len(history)
      /\ Follows(SubSeq(history, 1, proc[p].read), proc[p].next)
      /\ Shown(proc[p].next)
  BY <1>1 DEF Ready
<1>3. /\ proc[p].read \in 0..Len(history')
      /\ SubSeq(history', 1, proc[p].read) = SubSeq(history, 1, proc[p].read)
  BY <1>2 DEF Grows
<1> QED
  BY <1>2, <1>3 DEF Grows, Shown

LEMMA WrittenStays ==
    ASSUME Grows, NEW p \in Actors, Written(p), At(p, "merge")' => At(p, "merge"),
           proc'[p].base = proc[p].base, proc'[p].ops = proc[p].ops
    PROVE  Written(p)'
<1>1. SUFFICES ASSUME At(p, "merge") \/ proc[p].ops # <<>>
               PROVE  /\ proc[p].base \in DOMAIN history'
                      /\ proc[p].ops \in Contributions(history'[proc[p].base])
  BY DEF Written
<1>2. proc[p].base \in DOMAIN history /\ proc[p].ops \in Contributions(history[proc[p].base])
  BY <1>1 DEF Written
<1> QED
  BY <1>2 DEF Grows

(* A process that stands still keeps what it knows, as long as nobody touches *)
(* the publication while it holds the lock.                                    *)
LEMMA PublishingStays ==
    ASSUME Shape, Journal, Grows, NEW p \in Actors, Publishing(p), proc'[p] = proc[p],
           proc[p].at \in Locked => UNCHANGED <<publication, draft, staged, leftover>>
    PROVE  Publishing(p)'
<1>1. ASSUME proc[p].at \in Locked \cup {"journal", "plan", "list", "import"}
      PROVE  Publishable(proc[p].read) /\ Publishable(proc[p].read)'
  BY <1>1, PublishableStays DEF Publishing
<1>2. Carries(p)' = Carries(p)
  BY DEF Carries
<1>3. At(p, "import") => IsOutThere(proc[p].read)'
  <2>1. SUFFICES ASSUME At(p, "import") PROVE IsOutThere(proc[p].read)'
    OBVIOUS
  <2>2. PICK r : r = proc[p].read
    OBVIOUS
  <2>3. Publishable(r) /\ IsOutThere(r)
    BY <1>1, <2>1, <2>2 DEF Publishing, At
  <2>4. IsOutThere(r)'
    BY <2>3, OutThereStays
  <2> QED
    BY <2>2, <2>4
<1>4. At(p, "save") /\ proc[p].next.publication # 0 =>
         (Publishable(proc[p].next.publication) /\ IsOutThere(proc[p].next.publication))'
  <2>1. SUFFICES ASSUME At(p, "save"), proc[p].next.publication # 0
                 PROVE  (Publishable(proc[p].next.publication)
                            /\ IsOutThere(proc[p].next.publication))'
    OBVIOUS
  <2>2. PICK r : r = proc[p].next.publication
    OBVIOUS
  <2>3. Publishable(r) /\ IsOutThere(r)
    BY <2>1, <2>2 DEF Publishing
  <2>4. Publishable(r)' /\ IsOutThere(r)'
    BY <2>3, OutThereStays, PublishableStays
  <2> QED
    BY <2>2, <2>4
<1>5. At(p, "index") \/ At(p, "turn") =>
         /\ UNCHANGED <<publication, draft, staged, leftover>>
         /\ listed = proc[p].read => listed' = proc[p].read
  <2>1. SUFFICES ASSUME At(p, "index") \/ At(p, "turn") PROVE listed = proc[p].read => listed' = proc[p].read
    BY DEF At, Locked
  <2>2. Publishable(proc[p].read)
    BY <1>1, <2>1 DEF At, Locked
  <2> QED
    BY <2>2, OnePublishable DEF Grows
<1>6. At(p, "turn") => Effected(proc[p].read)'
  <2>1. SUFFICES ASSUME At(p, "turn") PROVE Effected(proc[p].read)'
    OBVIOUS
  <2>2. Effected(proc[p].read)
    BY <2>1 DEF Publishing
  <2> QED
    BY <1>5, <2>1, <2>2 DEF Effected, PlanTidied, Grows
<1>7. At(p, "index") =>
         publication.state = "marker_committed" /\ listed' = proc[p].read
  BY <1>5 DEF Publishing
<1>9. At(p, "unlink") => Linked(proc[p].read)'
  <2>1. SUFFICES ASSUME At(p, "unlink") PROVE Linked(proc[p].read)'
    OBVIOUS
  <2>2. Linked(proc[p].read) /\ UNCHANGED publication
    BY <2>1 DEF Publishing, At, Locked
  <2> QED
    BY <2>2 DEF Linked, Grows
<1>8. /\ proc[p].at \in {"plan", "list"} => indexed'
      /\ At(p, "list") => proc[p].read \in planFiles'
      /\ proc[p].at \in Locked =>
            publication'.state # "none" /\ publication'.revision = proc[p].read
      /\ proc[p].at \in {"effect", "unlink", "index", "turn"} => publication'.state # "materialized"
      /\ proc[p].at \in Locked \cup {"journal", "plan", "list", "import"} =>
            (Carries(p) => proc[p].next.publication = proc[p].read)
  BY DEF Publishing, Grows, Locked
<1> QED
  BY <1>1, <1>2, <1>3, <1>4, <1>5, <1>6, <1>7, <1>8, <1>9 DEF Publishing, At

LEMMA OthersStay ==
    ASSUME IInv, Grows, NEW p \in Actors, Steps(p),
           \/ proc[p].at \in Locked \/ pubLock = Nobody
           \/ UNCHANGED <<publication, draft, staged, leftover>>
    PROVE  \A q \in Actors \ {p} : Ready(q)' /\ Written(q)' /\ Publishing(q)'
<1>1. SUFFICES ASSUME NEW q \in Actors, q # p
               PROVE  Ready(q)' /\ Written(q)' /\ Publishing(q)'
  OBVIOUS
<1>2. proc'[q] = proc[q]
  BY <1>1 DEF Steps
<1>3. Ready(q) /\ Written(q) /\ Publishing(q) /\ Shape /\ Journal
  BY DEF IInv
<1>4. Ready(q)'
  BY <1>2, <1>3, ReadyStays DEF Carries
<1>5. Written(q)'
  BY <1>2, <1>3, WrittenStays DEF At
<1>6. proc[q].at \in Locked => UNCHANGED <<publication, draft, staged, leftover>>
  <2>1. pubLock = q <=> proc[q].at \in Locked
    BY DEF IInv, Locks
  <2>2. pubLock = p <=> proc[p].at \in Locked
    BY DEF IInv, Locks
  <2>3. q # Nobody
    BY FramingAssumption DEF Actors, Nobody, Doctor
  <2> QED
    BY <1>1, <2>1, <2>2, <2>3
<1>7. Publishing(q)'
  BY <1>2, <1>3, <1>6, PublishingStays
<1> QED
  BY <1>4, <1>5, <1>7

-----------------------------------------------------------------------------
(* Steps that leave a part of the invariant alone. *)

LEMMA RevisionsStay ==
    ASSUME Journal, history' = history, confirmed \subseteq confirmed'
    PROVE  Journal'
<1>1. ASSUME NEW n \in DOMAIN history PROVE WellMade(n)'
  <2>1. WellMade(n)
    BY DEF Journal
  <2> PICK plan : plan = history[n]
    OBVIOUS
  <2>2. BindsWhatWasShown(plan)'
    BY <2>1 DEF WellMade, BindsWhatWasShown
  <2> QED
    BY <2>1, <2>2 DEF WellMade
<1> QED
  BY <1>1 DEF Journal

LEMMA JournalStays ==
    ASSUME IInv, NEW p \in Actors, Steps(p), UNCHANGED <<history, events, pointer, basis>>,
           repository' \in Snapshots, confirmed \subseteq confirmed',
           At(p, "event")' => At(p, "event")
    PROVE  Shape' /\ Recorded' /\ Journal'
<1>1. Shape'
  BY DEF IInv, Shape, Steps, Resting
<1>2. Recorded'
  BY DEF IInv, Recorded, Steps, At
<1>3. Journal'
  BY RevisionsStay DEF IInv
<1> QED
  BY <1>1, <1>2, <1>3

(* The locks before and after a step of p. *)
Grips(p) ==
    /\ \/ UNCHANGED lock /\ (proc'[p].at \in {"event", "pointer"} <=> proc[p].at \in {"event", "pointer"})
       \/ lock = Nobody /\ lock' = p /\ proc'[p].at \in {"event", "pointer"}
       \/ lock = p /\ lock' = Nobody /\ proc'[p].at \notin {"event", "pointer"}
    /\ \/ UNCHANGED pubLock /\ (proc'[p].at \in Locked <=> proc[p].at \in Locked)
       \/ pubLock = Nobody /\ pubLock' = p /\ proc'[p].at \in Locked
       \/ pubLock = p /\ pubLock' = Nobody /\ proc'[p].at \notin Locked

LEMMA LocksStay ==
    ASSUME IInv, NEW p \in Actors, Steps(p), Grips(p)
    PROVE  Locks'
<1>1. Nobody \notin Actors
  BY FramingAssumption DEF Actors, Nobody, Doctor
<1>2. lock' \in Actors \cup {Nobody} /\ pubLock' \in Actors \cup {Nobody}
  BY DEF IInv, Locks, Grips
<1>3. ASSUME NEW q \in Actors
      PROVE  /\ lock' = q <=> proc'[q].at \in {"event", "pointer"}
             /\ pubLock' = q <=> proc'[q].at \in Locked
  <2>1. /\ lock = q <=> proc[q].at \in {"event", "pointer"}
        /\ lock = p <=> proc[p].at \in {"event", "pointer"}
        /\ pubLock = q <=> proc[q].at \in Locked
        /\ pubLock = p <=> proc[p].at \in Locked
    BY DEF IInv, Locks
  <2>2. CASE q = p
    BY <1>1, <2>1, <2>2 DEF Grips
  <2>3. CASE q # p
    <3>1. proc'[q] = proc[q]
      BY <2>3 DEF Steps
    <3>2. lock' = q <=> lock = q
      BY <1>1, <2>1, <2>3 DEF Grips
    <3>3. pubLock' = q <=> pubLock = q
      BY <1>1, <2>1, <2>3 DEF Grips
    <3> QED
      BY <2>1, <3>1, <3>2, <3>3
  <2> QED
    BY <2>2, <2>3
<1> QED
  BY <1>2, <1>3 DEF Locks

LEMMA LatestStaysOut ==
    ASSUME IInv, Grows, history' = history, history # <<>>, Latest.publication # 0
    PROVE  IsOutThere(Latest.publication)'
<1>2. PICK r : r = Latest.publication
  OBVIOUS
<1>3. IsOutThere(r)
  BY <1>2 DEF IInv, Artifacts
<1>4. Len(history) \in DOMAIN history /\ Latest = history[Len(history)]
  BY LatestIs DEF IInv
<1>5. WellMade(Len(history))
  BY <1>4 DEF IInv, Journal
<1>6. r = Len(history) - 1 /\ r \in DOMAIN history /\ history[r].grounded # 0
  BY <1>2, <1>4, <1>5 DEF WellMade
<1>7. WellMade(r)
  BY <1>6 DEF IInv, Journal
<1>8. Publishable(r)
  <2>1. Len(history) \in Nat
    BY LatestIs DEF IInv
  <2>2. r # Len(history)
    BY <1>6, <2>1
  <2> QED
    BY <1>6, <1>7, <2>2 DEF WellMade, Publishable
<1>9. IsOutThere(r)'
  BY <1>3, <1>8, OutThereStays DEF IInv
<1> QED
  BY <1>2, <1>9 DEF Latest

LEMMA ArtifactsStay ==
    ASSUME IInv, Grows, UNCHANGED <<history, publication, draft, staged, leftover>>,
           marker' \in {"none", "ours", "foreign"}, indexed' \in BOOLEAN,
           \A r \in planFiles' : Publishable(r), indexed' => marker' = "ours"
    PROVE  Effects' /\ Artifacts'
<1>1. ASSUME NEW r PROVE Publishable(r)' = Publishable(r)
  BY DEF Publishable
<1>2. publication.state # "none" /\ listed = publication.revision => listed' = publication.revision
  <2>1. publication.state # "none" => Publishable(publication.revision)
    BY DEF IInv, Artifacts
  <2> QED
    BY <2>1, OnePublishable DEF Grows, IInv
<1>3. Effects'
  BY <1>2 DEF IInv, Effects, PlanTidied, Grows
<1>4. history # <<>> /\ Latest.publication # 0 => IsOutThere(Latest.publication)'
  BY LatestStaysOut
<1>5. Artifacts'
  <2>1. history' # <<>> /\ Latest'.publication # 0 => IsOutThere(Latest.publication)'
    BY <1>4 DEF Latest
  <2> QED
    BY <1>1, <2>1 DEF IInv, Artifacts
<1> QED
  BY <1>3, <1>5

(* A process that has nothing to do owes nothing. *)
LEMMA OwesNothing ==
    ASSUME NEW p \in Actors, proc'[p] = Resting
    PROVE  Ready(p)' /\ Written(p)' /\ Publishing(p)'
<1>1. proc'[p].at = "idle" /\ proc'[p].next = <<>> /\ proc'[p].ops = <<>>
  BY DEF Resting
<1> QED
  BY <1>1 DEF Ready, Carries, Written, Publishing, At, Locked

(* A step that concerns only what p is doing. *)
LEMMA OnlySteps ==
    ASSUME IInv, NEW p \in Actors, Steps(p), Grips(p),
           UNCHANGED <<journal, repository, publication, draft, artifacts>>,
           confirmed \subseteq confirmed', At(p, "event")' => At(p, "event"),
           Ready(p)' /\ Written(p)' /\ Publishing(p)'
    PROVE  IInv'
<1>1. Grows
  BY GrowsWithout DEF IInv, journal, artifacts
<1>2. \A q \in Actors \ {p} : Ready(q)' /\ Written(q)' /\ Publishing(q)'
  BY <1>1, OthersStay DEF artifacts
<1>3. Effects' /\ Artifacts'
  BY <1>1, ArtifactsStay DEF journal, artifacts, IInv, Artifacts
<1>4. Shape' /\ Recorded' /\ Journal'
  BY JournalStays DEF journal, IInv, Shape
<1>5. Locks'
  BY LocksStay
<1> QED
  BY <1>2, <1>3, <1>4, <1>5 DEF IInv

-----------------------------------------------------------------------------
(* Computing the next revision. *)

LEMMA RestKeeps ==
    ASSUME IInv, NEW p \in Actors, Rest(p), UNCHANGED <<journal, repository, publication, draft, artifacts, confirmed>>,
           lock' = IF lock = p THEN Nobody ELSE lock,
           pubLock' = IF pubLock = p THEN Nobody ELSE pubLock
    PROVE  IInv'
<1>1. Steps(p) /\ proc'[p] = Resting /\ proc'[p].at = "idle"
  BY Rests DEF IInv, Resting
<1>2. Grips(p)
  BY <1>1 DEF Grips, Locked, IInv, Locks
<1>3. Ready(p)' /\ Written(p)' /\ Publishing(p)'
  BY <1>1, OwesNothing
<1> QED
  BY <1>1, <1>2, <1>3, OnlySteps DEF At

(* The last revision may be read and followed. *)
LEMMA ReadsAll ==
    ASSUME Shape, NEW p \in Actors, history' = history,
           proc'[p].read = Len(history), Follows(history, proc'[p].next),
           Shown(proc[p].next)'
    PROVE  Ready(p)'
<1>1. SubSeq(history, 1, Len(history)) = history /\ Len(history) \in 0..Len(history)
  BY Whole DEF Shape, IsSequence
<1>2. /\ proc'[p].read \in 0..Len(history')
      /\ SubSeq(history', 1, proc'[p].read) = history
  BY <1>1
<1> QED
  BY <1>2 DEF Ready

LEMMA EnterKeeps ==
    ASSUME IInv, NEW p \in Proc, Enter(p) PROVE IInv'
<1> p \in Actors
  BY DEF Actors
<1> PICK new : new = [Resting EXCEPT !.at = "save", !.next = NewPlan(repository)]
  OBVIOUS
<1>1. /\ DOMAIN new = DOMAIN Resting /\ new.at = "save" /\ new.base = 0 /\ new.read = 0
      /\ new.ops = <<>> /\ new.next = NewPlan(repository)
  BY DEF Resting
<1>2. Steps(p) /\ proc'[p] = new
  <2>1. proc' = [proc EXCEPT ![p] = new]
    BY DEF Enter
  <2>2. Shape /\ new.at \in Places /\ new.base \in Nat
    BY <1>1 DEF IInv, Places
  <2>3. DOMAIN new = DOMAIN Resting
    BY <1>1
  <2> QED
    BY <2>1, <2>2, <2>3, Begins
<1>3. Ready(p)'
  <2>1. Len(history) = 0 /\ IsSequence(history) /\ history = <<>>
    BY Unstarted DEF IInv, Shape, Enter
  <2>2. Follows(history, new.next)
    BY <1>1, <2>1 DEF Follows, IInv, Shape
  <2>3. Shown(proc[p].next)'
    BY <1>1, <1>2 DEF Shown, NewPlan
  <2> QED
    BY <1>1, <1>2, <2>1, <2>2, <2>3, ReadsAll DEF Enter, IInv, journal
<1>4. Written(p)' /\ Publishing(p)'
  BY <1>1, <1>2 DEF Written, Publishing, At, Locked, NewPlan
<1>5. Grips(p)
  BY <1>1, <1>2 DEF Grips, Locked, IInv, Locks, Enter, Idle, At
<1> QED
  BY <1>1, <1>2, <1>3, <1>4, <1>5, OnlySteps DEF Enter, At

(* A contribution follows, and asks nobody for anything. *)
LEMMA ContributionFollows ==
    ASSUME IInv, history # <<>>, NEW r \in DOMAIN history,
           NEW ops \in Contributions(history[r]),
           NEW plan \in Merged(history[r], Latest, ops)
    PROVE  Follows(history, plan) /\ Shown(plan) /\ plan.publication = 0
<1>1. /\ Len(history) \in DOMAIN history /\ LastOf(history) = Latest
      /\ Latest = history[Len(history)]
  BY LatestIs DEF IInv
<1>2. WellMade(Len(history))
  BY <1>1 DEF IInv, Journal
<1>3. IsContribution(history, plan)
  BY <1>1 DEF IsContribution
<1>4. plan.intent = Latest.intent /\ plan.grounded = 0 /\ plan.publication = 0
  BY <1>1, <1>2, MergedKeeps DEF WellMade
<1>5. Shown(plan)
  BY <1>1, <1>2, <1>4 DEF Shown, WellMade, BindsWhatWasShown
<1> QED
  BY <1>3, <1>4, <1>5 DEF Follows

LEMMA SubmitKeeps ==
    ASSUME IInv, NEW p \in Proc, Submit(p) PROVE IInv'
<1> p \in Actors
  BY DEF Actors
<1>0. PICK r \in DOMAIN history : \E ops \in OperationsOn(history[r]) :
        \E plan \in Merged(history[r], Latest, ops) :
            proc' = [proc EXCEPT ![p] = [Resting EXCEPT
                       !.at = "save", !.ops = ops, !.base = r,
                       !.read = Len(history), !.next = plan, !.tries = 1]]
  BY DEF Submit
<1>1. PICK ops \in OperationsOn(history[r]) :
        \E plan \in Merged(history[r], Latest, ops) :
            proc' = [proc EXCEPT ![p] = [Resting EXCEPT
                       !.at = "save", !.ops = ops, !.base = r,
                       !.read = Len(history), !.next = plan, !.tries = 1]]
  BY <1>0
<1>2. PICK plan \in Merged(history[r], Latest, ops) :
            proc' = [proc EXCEPT ![p] = [Resting EXCEPT
                       !.at = "save", !.ops = ops, !.base = r,
                       !.read = Len(history), !.next = plan, !.tries = 1]]
  BY <1>1
<1> PICK new : new = [Resting EXCEPT !.at = "save", !.ops = ops, !.base = r,
                        !.read = Len(history), !.next = plan, !.tries = 1]
  OBVIOUS
<1>3. /\ DOMAIN new = DOMAIN Resting /\ new.at = "save" /\ new.base = r
      /\ new.read = Len(history) /\ new.ops = ops /\ new.next = plan
  BY DEF Resting
<1>4. r \in Nat
  BY DEF IInv, Shape, IsSequence
<1>5. Steps(p) /\ proc'[p] = new
  <2>1. proc' = [proc EXCEPT ![p] = new]
    BY <1>2
  <2>2. Shape /\ new.at \in Places /\ new.base \in Nat
    BY <1>3, <1>4 DEF IInv, Places
  <2>3. DOMAIN new = DOMAIN Resting
    BY <1>3
  <2> QED
    BY <2>1, <2>2, <2>3, Begins
<1>6. ops \in Contributions(history[r])
  BY DEF Contributions
<1>7. Follows(history, plan) /\ Shown(plan) /\ plan.publication = 0
  BY <1>6, ContributionFollows DEF Submit
<1>8. UNCHANGED <<history, confirmed>>
  BY DEF Submit, journal
<1>9. Ready(p)'
  BY <1>3, <1>5, <1>7, <1>8, ReadsAll DEF IInv, Shown
<1>10. Written(p)'
  BY <1>3, <1>5, <1>6, <1>8 DEF Written
<1>11. Publishing(p)'
  BY <1>3, <1>5, <1>7 DEF Publishing, At, Locked
<1>12. Grips(p)
  BY <1>3, <1>5 DEF Grips, Locked, IInv, Locks, Submit, Idle, At
<1> QED
  BY <1>3, <1>5, <1>9, <1>10, <1>11, <1>12, OnlySteps DEF Submit, At

LEMMA MergeKeeps ==
    ASSUME IInv, NEW p \in Actors, Merge(p) PROVE IInv'
<1> DEFINE base == history[proc[p].base]
           ops  == proc[p].ops
<1>1. proc[p].base \in DOMAIN history /\ ops \in Contributions(base) /\ At(p, "merge")
  BY DEF Merge, IInv, Written
<1>2. history # <<>>
  BY <1>1
<1>3. CASE Rest(p)
  <2>1. lock # p /\ pubLock # p
    BY <1>1 DEF IInv, Locks, At, Locked
  <2> QED
    BY <1>3, <2>1, RestKeeps DEF Merge
<1>4. CASE \E plan \in Merged(base, Latest, ops) :
             proc' = [proc EXCEPT ![p].at = "save", ![p].read = Len(history),
                                  ![p].next = plan, ![p].tries = @ + 1]
  <2>1. PICK plan \in Merged(base, Latest, ops) :
             proc' = [proc EXCEPT ![p].at = "save", ![p].read = Len(history),
                                  ![p].next = plan, ![p].tries = @ + 1]
    BY <1>4
  <2>2. /\ Steps(p) /\ proc'[p].at = "save" /\ proc'[p].read = Len(history)
        /\ proc'[p].next = plan /\ proc'[p].base = proc[p].base /\ proc'[p].ops = ops
    BY <2>1 DEF IInv, Shape, Steps, Places, Resting
  <2>3. Follows(history, plan) /\ Shown(plan) /\ plan.publication = 0
    BY <1>1, <1>2, ContributionFollows
  <2>4. UNCHANGED <<history, confirmed>>
    BY DEF Merge, journal
  <2>5. Ready(p)'
    BY <2>2, <2>3, <2>4, ReadsAll DEF IInv, Shown
  <2>6. Written(p)'
    BY <1>1, <2>2, <2>4 DEF Written
  <2>7. Publishing(p)'
    BY <2>2, <2>3 DEF Publishing, At, Locked
  <2>8. Grips(p)
    BY <1>1, <2>2 DEF Grips, Locked, IInv, Locks, Merge, At
  <2> QED
    BY <2>2, <2>5, <2>6, <2>7, <2>8, OnlySteps DEF Merge, At
<1> QED
  BY <1>3, <1>4 DEF Merge

LEMMA RefreshKeeps ==
    ASSUME IInv, NEW p \in Proc, Idle(p), history # <<>>,
           NEW ops \in RefreshesOf(Latest, repository),
           proc' = [proc EXCEPT ![p] = [Resting EXCEPT
                      !.at = "merge", !.base = Len(history), !.ops = ops]],
           UNCHANGED <<journal, lock, repository, publication, draft, artifacts, pubLock, confirmed>>
    PROVE  IInv'
<1> p \in Actors
  BY DEF Actors
<1> PICK new : new = [Resting EXCEPT !.at = "merge", !.base = Len(history), !.ops = ops]
  OBVIOUS
<1>1. /\ DOMAIN new = DOMAIN Resting /\ new.at = "merge" /\ new.base = Len(history)
      /\ new.next = <<>> /\ new.ops = ops
  BY DEF Resting
<1>2. Len(history) \in DOMAIN history /\ Len(history) \in Nat /\ Latest = history[Len(history)]
  BY LatestIs DEF IInv
<1>3. Steps(p) /\ proc'[p] = new
  <2>1. proc' = [proc EXCEPT ![p] = new]
    OBVIOUS
  <2>2. Shape /\ new.at \in Places /\ new.base \in Nat
    BY <1>1, <1>2 DEF IInv, Places
  <2>3. DOMAIN new = DOMAIN Resting
    BY <1>1
  <2> QED
    BY <2>1, <2>2, <2>3, Begins
<1>4. new.ops \in Contributions(history[new.base])
  BY <1>1, <1>2 DEF Contributions, IInv, Shape
<1>5. Written(p)' /\ Ready(p)' /\ Publishing(p)'
  BY <1>1, <1>2, <1>3, <1>4 DEF Written, Ready, Carries, Publishing, At, Locked, journal
<1>6. Grips(p)
  BY <1>1, <1>3 DEF Grips, Locked, IInv, Locks, Idle, At
<1> QED
  BY <1>1, <1>3, <1>5, <1>6, OnlySteps DEF At

LEMMA StabilizeKeeps ==
    ASSUME IInv, NEW p \in Proc, NEW kind \in {"intent", "grounded"}, Stabilize(p, kind)
    PROVE  IInv'
<1> p \in Actors
  BY DEF Actors
<1>1. PICK shown \in DOMAIN history :
        /\ shown = Len(history)
        /\ \/ /\ repository # Latest.probe
              /\ \E ops \in RefreshesOf(Latest, repository) :
                    proc' = [proc EXCEPT ![p] = [Resting EXCEPT
                               !.at = "merge", !.base = Len(history), !.ops = ops]]
              /\ UNCHANGED confirmed
           \/ /\ CanStabilize(Latest, kind)
              /\ proc' = [proc EXCEPT ![p] = [Resting EXCEPT
                            !.at = "save", !.base = Len(history), !.read = Len(history),
                            !.next = Stabilized(Latest, kind)]]
              /\ confirmed' = confirmed \cup {<<kind, shown>>}
  BY DEF Stabilize, Unchanged
<1>2. history # <<>>
  OBVIOUS
<1>3. CASE /\ \E ops \in RefreshesOf(Latest, repository) :
                 proc' = [proc EXCEPT ![p] = [Resting EXCEPT
                            !.at = "merge", !.base = Len(history), !.ops = ops]]
           /\ UNCHANGED confirmed
  <2> PICK ops \in RefreshesOf(Latest, repository) :
        proc' = [proc EXCEPT ![p] = [Resting EXCEPT
                   !.at = "merge", !.base = Len(history), !.ops = ops]]
    BY <1>3
  <2>1. /\ Idle(p)
        /\ UNCHANGED <<journal, lock, repository, publication, draft, artifacts, pubLock, confirmed>>
    BY <1>3 DEF Stabilize
  <2> QED
    BY <1>2, <2>1, RefreshKeeps
<1>4. CASE /\ CanStabilize(Latest, kind)
           /\ proc' = [proc EXCEPT ![p] = [Resting EXCEPT
                         !.at = "save", !.base = Len(history), !.read = Len(history),
                         !.next = Stabilized(Latest, kind)]]
           /\ confirmed' = confirmed \cup {<<kind, shown>>}
  <2> PICK plan : plan = Stabilized(Latest, kind)
    OBVIOUS
  <2> PICK new : new = [Resting EXCEPT !.at = "save", !.base = Len(history),
                                       !.read = Len(history), !.next = plan]
    OBVIOUS
  <2>1. /\ DOMAIN new = DOMAIN Resting /\ new.at = "save" /\ new.base = Len(history)
        /\ new.read = Len(history) /\ new.ops = <<>> /\ new.next = plan
    BY DEF Resting
  <2>2. /\ Len(history) \in DOMAIN history /\ Len(history) \in Nat
        /\ Latest = history[Len(history)] /\ LastOf(history) = Latest
    BY <1>2, LatestIs DEF IInv
  <2>3. Steps(p) /\ proc'[p] = new
    <3>1. proc' = [proc EXCEPT ![p] = new]
      BY <1>4
    <3>2. Shape /\ new.at \in Places /\ new.base \in Nat
      BY <2>1, <2>2 DEF IInv, Places
    <3>3. DOMAIN new = DOMAIN Resting
      BY <2>1
    <3> QED
      BY <3>1, <3>2, <3>3, Begins
  <2>4. WellMade(Len(history))
    BY <2>2 DEF IInv, Journal
  <2>5. /\ plan.intent = IF kind = "intent" THEN Len(history) ELSE Latest.intent
        /\ plan.grounded = IF kind = "intent" THEN Latest.grounded ELSE Len(history)
        /\ plan.publication = Latest.publication
    BY <2>2, <2>4 DEF Stabilized, WellMade, Fields
  <2>6. /\ Latest.intent # 0 => <<"intent", Latest.intent>> \in confirmed
        /\ Latest.grounded # 0 => <<"grounded", Latest.grounded>> \in confirmed
    BY <2>2, <2>4 DEF WellMade, BindsWhatWasShown
  <2>7. Latest.publication = 0
    <3>1. Latest.publication # 0 => Latest.grounded # 0 /\ Latest.intent # 0
      BY <2>2, <2>4 DEF WellMade
    <3> QED
      BY <1>4, <3>1 DEF CanStabilize
  <2>8. Shown(plan)'
    BY <1>1, <1>4, <2>5, <2>6 DEF Shown
  <2>9. Follows(history, plan)
    BY <1>2, <1>4, <2>2 DEF Follows, IsConfirmation
  <2>10. Ready(p)'
    <3>1. Shown(proc[p].next)'
      BY <2>1, <2>3, <2>8 DEF Shown
    <3>2. history' = history
      BY DEF Stabilize, journal
    <3>3. Shape /\ proc'[p].read = Len(history) /\ Follows(history, proc'[p].next)
      BY <2>1, <2>3, <2>9 DEF IInv
    <3> QED
      BY <3>1, <3>2, <3>3, ReadsAll
  <2>11. Written(p)' /\ Publishing(p)'
    BY <2>1, <2>3, <2>5, <2>7 DEF Written, Publishing, At, Locked
  <2>12. Grips(p)
    BY <2>1, <2>3 DEF Grips, Locked, IInv, Locks, Stabilize, Idle, At
  <2>13. confirmed \subseteq confirmed'
    BY <1>4
  <2> QED
    BY <2>1, <2>3, <2>10, <2>11, <2>12, <2>13, OnlySteps DEF Stabilize, At
<1> QED
  BY <1>1, <1>3, <1>4

-----------------------------------------------------------------------------
(* Beginning a publication. *)

LEMMA BeginPublishKeeps ==
    ASSUME IInv, NEW p \in Proc, BeginPublish(p) PROVE IInv'
<1> p \in Actors
  BY DEF Actors
<1> PICK plan : plan = Published(Latest)
  OBVIOUS
<1> PICK new : new = [Resting EXCEPT
                  !.at = IF indexed THEN "plan" ELSE "journal",
                  !.read = Len(history), !.base = Len(history),
                  !.next = plan, !.draft = draft]
  OBVIOUS
<1>1. /\ DOMAIN new = DOMAIN Resting /\ new.at = (IF indexed THEN "plan" ELSE "journal")
      /\ new.base = Len(history) /\ new.read = Len(history) /\ new.ops = <<>>
      /\ new.next = plan
  BY DEF Resting
<1>2. /\ Len(history) \in DOMAIN history /\ Len(history) \in Nat
      /\ Latest = history[Len(history)] /\ LastOf(history) = Latest
  BY LatestIs DEF IInv, BeginPublish
<1>3. Steps(p) /\ proc'[p] = new
  <2>1. proc' = [proc EXCEPT ![p] = new]
    BY DEF BeginPublish
  <2>2. Shape /\ new.at \in Places /\ new.base \in Nat
    <3>1. new.at \in {"plan", "journal"} /\ new.base \in Nat
      BY <1>1, <1>2
    <3> QED
      BY <3>1 DEF IInv, Places
  <2>3. DOMAIN new = DOMAIN Resting
    BY <1>1
  <2> QED
    BY <2>1, <2>2, <2>3, Begins
<1>4. WellMade(Len(history))
  BY <1>2 DEF IInv, Journal
<1>5. /\ plan.intent = Latest.intent /\ plan.grounded = Latest.grounded
      /\ plan.publication = Len(history)
  BY <1>2, <1>4 DEF Published, WellMade, Fields
<1>6. Shown(plan)
  BY <1>2, <1>4, <1>5 DEF Shown, WellMade, BindsWhatWasShown
<1>7. Follows(history, plan)
  BY <1>2 DEF Follows, IsPublication, BeginPublish
<1>8. UNCHANGED <<history, confirmed, indexed>>
  BY DEF BeginPublish, journal, artifacts
<1>9. Ready(p)'
  <2>1. Shown(proc[p].next)'
    BY <1>1, <1>3, <1>6, <1>8 DEF Shown
  <2>2. Shape /\ proc'[p].read = Len(history) /\ Follows(history, proc'[p].next)
    BY <1>1, <1>3, <1>7 DEF IInv
  <2> QED
    BY <1>8, <2>1, <2>2, ReadsAll
<1>10. Publishable(Len(history))'
  BY <1>2, <1>8 DEF Publishable, BeginPublish
<1>11. Written(p)' /\ Publishing(p)'
  <2>1. proc'[p].at \in {"plan", "journal"} /\ proc'[p].ops = <<>>
    BY <1>1, <1>3
  <2>2. Publishable(proc[p].read)' /\ proc'[p].next.publication = proc'[p].read
    BY <1>1, <1>3, <1>5, <1>8, <1>10 DEF Publishable
  <2>3. proc'[p].at = "plan" => indexed'
    BY <1>1, <1>3, <1>8
  <2> QED
    BY <2>1, <2>2, <2>3 DEF Written, Publishing, At, Locked
<1>12. Grips(p)
  BY <1>1, <1>3 DEF Grips, Locked, IInv, Locks, BeginPublish, Idle, At
<1> QED
  BY <1>1, <1>3, <1>9, <1>11, <1>12, OnlySteps DEF BeginPublish, At

LEMMA RecoverKeeps ==
    ASSUME IInv, Recover PROVE IInv'
<1> Doctor \in Actors
  BY DEF Actors
<1> PICK new : new = [Resting EXCEPT !.at = "journal", !.read = publication.revision,
                                     !.draft = draft]
  OBVIOUS
<1>1. /\ DOMAIN new = DOMAIN Resting /\ new.at = "journal" /\ new.base = 0
      /\ new.read = publication.revision /\ new.ops = <<>> /\ new.next = <<>>
  BY DEF Resting
<1>2. Steps(Doctor) /\ proc'[Doctor] = new
  <2>1. proc' = [proc EXCEPT ![Doctor] = new]
    BY DEF Recover
  <2>2. Shape /\ new.at \in Places /\ new.base \in Nat
    BY <1>1 DEF IInv, Places
  <2>3. DOMAIN new = DOMAIN Resting
    BY <1>1
  <2> QED
    BY <2>1, <2>2, <2>3, Begins
<1>3. UNCHANGED <<history, publication>>
  BY DEF Recover, journal
<1>4. Publishable(proc[Doctor].read)'
  BY <1>1, <1>2, <1>3 DEF Recover, Recoverable, IInv, Artifacts, Publishable
<1>5. Ready(Doctor)' /\ Written(Doctor)' /\ Publishing(Doctor)'
  BY <1>1, <1>2, <1>4 DEF Ready, Carries, Written, Publishing, At, Locked
<1>6. Grips(Doctor)
  BY <1>1, <1>2 DEF Grips, Locked, IInv, Locks, Recover, At
<1> QED
  BY <1>1, <1>2, <1>5, <1>6, OnlySteps DEF Recover, At

-----------------------------------------------------------------------------
(* The three writes of a save. *)

(* Under the lock save finds that nothing is newer than what was read. *)
LEMMA SavedFollows ==
    ASSUME IInv, NEW p \in Actors, At(p, "save"), StillLatest(p)
    PROVE  Follows(history, proc[p].next) /\ Shown(proc[p].next)
<1>1. SubSeq(history, 1, Len(history)) = history
  BY Whole DEF IInv, Shape
<1>2. /\ Follows(SubSeq(history, 1, proc[p].read), proc[p].next)
      /\ Shown(proc[p].next) /\ proc[p].read = Len(history)
  BY DEF IInv, Ready, Carries, At, StillLatest
<1> QED
  BY <1>1, <1>2

LEMMA SaveRevisionKeeps ==
    ASSUME IInv, NEW p \in Actors, SaveRevision(p) PROVE IInv'
<1> PICK plan : plan = proc[p].next
  OBVIOUS
<1> PICK len \in Nat : len = Len(history)
  BY DEF IInv, Shape, IsSequence
<1>1. Steps(p) /\ proc'[p].at = "event" /\ proc'[p].next = plan
      /\ proc'[p].ops = proc[p].ops /\ proc'[p].base = proc[p].base /\ proc'[p].read = proc[p].read
  BY GoesTo DEF SaveRevision, IInv, Places
<1>2. /\ history' = Append(history, plan) /\ basis' = Append(basis, proc[p].base)
      /\ UNCHANGED <<events, pointer, repository, publication, draft, artifacts, pubLock, confirmed>>
      /\ At(p, "save") /\ lock = Nobody /\ lock' = p
  BY DEF SaveRevision
<1>3. /\ IsSequence(history') /\ DOMAIN history = 1..len
      /\ Len(history') = len + 1 /\ DOMAIN history' = 1..(len + 1)
      /\ \A n \in DOMAIN history : history'[n] = history[n]
      /\ history'[len + 1] = plan
      /\ \A r \in 0..len : SubSeq(history', 1, r) = SubSeq(history, 1, r)
  BY <1>2, Appended DEF IInv, Shape
<1>4. Follows(history, plan) /\ Shown(plan)
  BY <1>2, SavedFollows DEF SaveRevision
<1>5. Journal'
  BY <1>2, <1>4, JournalGrows DEF IInv
<1>6. Grows
  BY <1>2, <1>3 DEF Grows, artifacts
<1>7. Shape'
  <2>1. basis' \in Seq(Nat) /\ Len(basis') = len + 1
    BY <1>2 DEF IInv, Shape
  <2>2. pointer' \in 0..(len + 1) /\ events' \in Seq(Nat) /\ repository' \in Snapshots
    BY <1>2 DEF IInv, Shape
  <2>3. /\ DOMAIN proc' = Actors
        /\ \A q \in Actors : DOMAIN proc'[q] = DOMAIN Resting /\ proc'[q].at \in Places
        /\ \A q \in Actors : proc'[q].base \in Nat
    BY <1>1, StaysTyped DEF IInv
  <2>4. DOMAIN Resting' = DOMAIN Resting
    BY DEF Resting
  <2> QED
    BY <1>3, <2>1, <2>2, <2>3, <2>4 DEF Shape
<1>8. Recorded'
  <2>1. \A n \in DOMAIN events : events[n] \in 1..len /\ events[n] \in DOMAIN history'
    BY <1>3 DEF IInv, Recorded
  <2>2. \A n \in DOMAIN events : events[n] < Len(history')
    BY <1>3, <2>1
  <2>3. history' # <<>>
    BY <1>3, Unstarted
  <2>4. \A n \in 1..(Len(events) - 1) : events[n] < events[n + 1]
    BY DEF IInv, Recorded
  <2> QED
    BY <1>2, <2>1, <2>2, <2>3, <2>4 DEF Recorded
<1>9. Locks'
  <2>1. Grips(p)
    BY <1>1, <1>2 DEF Grips, Locked, At
  <2> QED
    BY <1>1, <2>1, LocksStay
<1>10. \A q \in Actors \ {p} : Ready(q)' /\ Written(q)' /\ Publishing(q)'
  BY <1>1, <1>2, <1>6, OthersStay DEF artifacts
<1>11. Ready(p)' /\ Written(p)' /\ Publishing(p)'
  <2>1. Carries(p) /\ Ready(p) /\ Written(p)
    BY <1>2 DEF Carries, At, IInv
  <2>2. Ready(p)'
    BY <1>1, <1>6, <2>1, ReadyStays
  <2>3. Written(p)'
    BY <1>1, <1>6, <2>1, WrittenStays DEF At
  <2>4. Publishing(p)'
    BY <1>1 DEF Publishing, At, Locked
  <2> QED
    BY <2>2, <2>3, <2>4
<1>12. Effects'
  BY <1>2 DEF IInv, Effects, PlanTidied, artifacts
<1>13. Artifacts'
  <2>1. \A r \in planFiles : Publishable(r)'
    BY <1>6, PublishableStays DEF IInv, Artifacts
  <2>2. publication.state # "none" => Publishable(publication.revision)'
    BY <1>2, <1>6, PublishableStays DEF IInv, Artifacts
  <2>3. plan.publication # 0 => IsOutThere(plan.publication)'
    BY <1>2 DEF IInv, Publishing, IsOutThere, artifacts
  <2>4. Latest' = plan
    BY <1>3 DEF Latest
  <2> QED
    BY <1>2, <2>1, <2>2, <2>3, <2>4 DEF IInv, Artifacts, artifacts
<1> QED
  BY <1>5, <1>7, <1>8, <1>9, <1>10, <1>11, <1>12, <1>13 DEF IInv

LEMMA SaveConflictKeeps ==
    ASSUME IInv, NEW p \in Actors, SaveConflict(p) PROVE IInv'
<1>1. lock # p /\ pubLock # p /\ At(p, "save")
  BY DEF IInv, Locks, At, Locked, SaveConflict
<1>2. CASE Rest(p)
  BY <1>1, <1>2, RestKeeps DEF SaveConflict
<1>3. CASE proc[p].ops # <<>> /\ proc' = [proc EXCEPT ![p].at = "merge", ![p].next = <<>>]
  <2>1. /\ Steps(p) /\ proc'[p].at = "merge" /\ proc'[p].next = <<>>
        /\ proc'[p].base = proc[p].base /\ proc'[p].ops = proc[p].ops
    BY <1>3 DEF IInv, Shape, Steps, Places, Resting
  <2>2. Ready(p)' /\ Publishing(p)'
    BY <2>1 DEF Ready, Carries, Publishing, At, Locked
  <2>3. Written(p)'
    BY <1>3, <2>1 DEF IInv, Written, SaveConflict, journal
  <2>4. Grips(p)
    BY <1>1, <2>1 DEF Grips, Locked, At, SaveConflict
  <2> QED
    BY <2>1, <2>2, <2>3, <2>4, OnlySteps DEF SaveConflict, At
<1> QED
  BY <1>2, <1>3 DEF SaveConflict

LEMMA SaveEventKeeps ==
    ASSUME IInv, NEW p \in Actors, SaveEvent(p) PROVE IInv'
<1> PICK len \in Nat : len = Len(history)
  BY DEF IInv, Shape, IsSequence
<1>1. /\ Steps(p) /\ proc'[p].at = "pointer" /\ proc'[p].next = proc[p].next
      /\ proc'[p].ops = proc[p].ops /\ proc'[p].base = proc[p].base /\ proc'[p].read = proc[p].read
  BY GoesTo DEF SaveEvent, IInv, Places
<1>2. /\ events' = Append(events, len) /\ At(p, "event")
      /\ UNCHANGED <<history, pointer, basis, lock, repository, publication, draft, artifacts,
                     pubLock, confirmed>>
  BY DEF SaveEvent
<1>3. /\ DOMAIN history = 1..len
      /\ events \in Seq(Nat) /\ \A n \in DOMAIN events : events[n] \in DOMAIN history /\ events[n] < len
      /\ \A n \in 1..(Len(events) - 1) : events[n] < events[n + 1]
  BY <1>2 DEF IInv, Shape, IsSequence, Recorded
<1>4. len \in DOMAIN history
  BY <1>2, LatestIs DEF IInv, Recorded
<1>5. /\ events' \in Seq(Nat) /\ Len(events') = Len(events) + 1 /\ events'[Len(events) + 1] = len
      /\ DOMAIN events' = 1..(Len(events) + 1) /\ DOMAIN events = 1..Len(events) /\ Len(events) \in Nat
      /\ \A n \in 1..Len(events) : events'[n] = events[n]
  BY <1>2, <1>3
<1>6. Grows
  BY <1>2, GrowsWithout DEF IInv, artifacts
<1>7. \A q \in Actors \ {p} : Ready(q)' /\ Written(q)' /\ Publishing(q)'
  <2>1. UNCHANGED <<publication, draft, staged, leftover>>
    BY <1>2 DEF artifacts
  <2> QED
    BY <1>1, <1>6, <2>1, OthersStay
<1>8. Ready(p)' /\ Written(p)' /\ Publishing(p)'
  <2>1. (Carries(p)' => Carries(p)) /\ Ready(p) /\ Written(p)
    BY <1>1 DEF Carries, IInv
  <2>2. Ready(p)'
    BY <1>1, <1>6, <2>1, ReadyStays
  <2>3. Written(p)'
    BY <1>1, <1>6, <2>1, WrittenStays DEF At
  <2>4. Publishing(p)'
    BY <1>1 DEF Publishing, At, Locked
  <2> QED
    BY <2>2, <2>3, <2>4
<1>9. Effects' /\ Artifacts'
  BY <1>2, <1>6, ArtifactsStay DEF IInv, Artifacts, artifacts
<1>10. Locks'
  <2>1. Grips(p)
    BY <1>1, <1>2 DEF Grips, Locked, At
  <2> QED
    BY <1>1, <2>1, LocksStay
<1>11. Shape'
  <2>1. /\ DOMAIN proc' = Actors
        /\ \A q \in Actors : DOMAIN proc'[q] = DOMAIN Resting /\ proc'[q].at \in Places
        /\ \A q \in Actors : proc'[q].base \in Nat
    BY <1>1, StaysTyped DEF IInv
  <2>2. DOMAIN Resting' = DOMAIN Resting
    BY DEF Resting
  <2> QED
    BY <1>2, <1>5, <2>1, <2>2 DEF IInv, Shape
<1>12. Recorded'
  <2>1. ASSUME NEW n \in DOMAIN events' PROVE events'[n] \in DOMAIN history
    <3>1. n = Len(events) + 1 \/ n \in 1..Len(events)
      BY <1>5, <2>1
    <3> QED
      BY <1>3, <1>4, <1>5, <3>1
  <2>2. ASSUME NEW n \in 1..(Len(events') - 1) PROVE events'[n] < events'[n + 1]
    <3>1. n \in 1..Len(events) /\ n \in DOMAIN events /\ events'[n] = events[n]
      BY <1>5, <2>2
    <3>2. CASE n = Len(events)
      BY <1>3, <1>5, <3>1, <3>2
    <3>3. CASE n # Len(events)
      <4>1. n \in 1..(Len(events) - 1) /\ n + 1 \in 1..Len(events)
        BY <1>5, <3>1, <3>3
      <4> QED
        BY <1>3, <1>5, <3>1, <4>1
    <3> QED
      BY <3>2, <3>3
  <2>3. ASSUME NEW q \in Actors PROVE proc'[q].at # "event"
    <3>1. lock = p /\ (lock' = q <=> proc'[q].at \in {"event", "pointer"})
      BY <1>2, <1>10 DEF IInv, Locks, At
    <3> QED
      BY <1>1, <1>2, <3>1
  <2> QED
    BY <1>2, <2>1, <2>2, <2>3 DEF Recorded, At
<1>13. Journal'
  BY <1>2, RevisionsStay DEF IInv
<1> QED
  BY <1>7, <1>8, <1>9, <1>10, <1>11, <1>12, <1>13 DEF IInv

LEMMA SavePointerKeeps ==
    ASSUME IInv, NEW p \in Actors, SavePointer(p) PROVE IInv'
<1>1. Steps(p) /\ proc'[p] = Resting /\ proc'[p].at = "idle"
  BY Rests DEF SavePointer, IInv, Resting
<1>2. /\ pointer' = Len(history) /\ At(p, "pointer") /\ lock' = Nobody
      /\ UNCHANGED <<history, events, basis, repository, publication, draft, artifacts,
                     pubLock, confirmed>>
  BY DEF SavePointer
<1>3. Grows
  BY <1>2, GrowsWithout DEF IInv, artifacts
<1>4. \A q \in Actors \ {p} : Ready(q)' /\ Written(q)' /\ Publishing(q)'
  <2>1. UNCHANGED <<publication, draft, staged, leftover>>
    BY <1>2 DEF artifacts
  <2> QED
    BY <1>1, <1>3, <2>1, OthersStay
<1>5. Ready(p)' /\ Written(p)' /\ Publishing(p)'
  BY <1>1, OwesNothing
<1>6. Effects' /\ Artifacts'
  BY <1>2, <1>3, ArtifactsStay DEF IInv, Artifacts, artifacts
<1>7. Locks'
  <2>1. Grips(p)
    BY <1>1, <1>2 DEF Grips, Locked, At, IInv, Locks
  <2> QED
    BY <1>1, <2>1, LocksStay
<1>8. Shape'
  <2>1. /\ DOMAIN proc' = Actors
        /\ \A q \in Actors : DOMAIN proc'[q] = DOMAIN Resting /\ proc'[q].at \in Places
        /\ \A q \in Actors : proc'[q].base \in Nat
    BY <1>1, StaysTyped DEF IInv
  <2>2. Len(history) \in 0..Len(history)
    BY DEF IInv, Shape, IsSequence
  <2> QED
    BY <1>2, <2>1, <2>2 DEF IInv, Shape, Resting
<1>9. Recorded'
  <2>1. ASSUME NEW q \in Actors, proc'[q].at = "event" PROVE At(q, "event")
    BY <1>1, <2>1 DEF Steps, At
  <2> QED
    BY <1>2, <2>1 DEF IInv, Recorded, At
<1>10. Journal'
  BY <1>2, RevisionsStay DEF IInv
<1> QED
  BY <1>4, <1>5, <1>6, <1>7, <1>8, <1>9, <1>10 DEF IInv

-----------------------------------------------------------------------------
(* The steps of a publication. *)

(* Such a step leaves the journal of the plan alone. *)
LEMMA PublicationSteps ==
    ASSUME IInv, NEW p \in Actors, Steps(p), Grips(p), Grows,
           UNCHANGED <<history, events, pointer, basis, confirmed>>, repository' \in Snapshots,
           At(p, "event")' => At(p, "event"),
           \/ proc[p].at \in Locked \/ pubLock = Nobody
           \/ UNCHANGED <<publication, draft, staged, leftover>>,
           Ready(p)' /\ Written(p)' /\ Publishing(p)', Effects' /\ Artifacts'
    PROVE  IInv'
<1>1. \A q \in Actors \ {p} : Ready(q)' /\ Written(q)' /\ Publishing(q)'
  BY OthersStay
<1>2. Shape' /\ Recorded' /\ Journal'
  BY JournalStays
<1>3. Locks'
  BY LocksStay
<1> QED
  BY <1>1, <1>2, <1>3 DEF IInv

(* A process that goes on to another place keeps the revision it carries. *)
LEMMA CarriesOn ==
    ASSUME IInv, Grows, NEW p \in Actors, NEW place \in Places \ {"merge"},
           proc' = [proc EXCEPT ![p].at = place],
           place \in {"save", "plan", "list", "import"} => Carries(p)
    PROVE  Ready(p)' /\ Written(p)'
<1>1. /\ proc'[p].at = place
      /\ proc'[p].ops = proc[p].ops /\ proc'[p].base = proc[p].base
      /\ proc'[p].read = proc[p].read /\ proc'[p].next = proc[p].next
  BY GoesTo DEF IInv
<1>2. Carries(p)' => Carries(p)
  BY <1>1 DEF Carries
<1>3. Ready(p) /\ Written(p)
  BY DEF IInv
<1>4. ~At(p, "merge")'
  BY <1>1 DEF At
<1> QED
  BY <1>1, <1>2, <1>3, <1>4, ReadyStays, WrittenStays

LEMMA WritePlanKeeps ==
    ASSUME IInv, NEW p \in Actors, WritePlan(p) PROVE IInv'
<1>1. /\ Steps(p) /\ proc'[p].at = "list" /\ proc'[p].next = proc[p].next
      /\ proc'[p].read = proc[p].read
  BY GoesTo DEF WritePlan, IInv, Places
<1>2. /\ At(p, "plan") /\ planFiles' = planFiles \cup {proc[p].read}
      /\ proc' = [proc EXCEPT ![p].at = "list"]
      /\ UNCHANGED <<history, events, pointer, basis, lock, repository, publication, draft, staged, leftover, marker, listed,
                     indexed, pubLock, confirmed>>
  BY DEF WritePlan, journal
<1>3. Publishable(proc[p].read) /\ indexed /\ Carries(p) /\ proc[p].next.publication = proc[p].read
  BY <1>2 DEF IInv, Publishing, At, Carries
<1>4. Grows
  BY <1>2 DEF Grows
<1>5. Publishable(proc[p].read)'
  BY <1>1, <1>2, <1>3 DEF Publishable
<1>6. Publishing(p)'
  BY <1>1, <1>2, <1>3, <1>5 DEF Publishing, At, Locked
<1>7. Ready(p)' /\ Written(p)'
  BY <1>2, <1>3, <1>4, CarriesOn DEF Places
<1>8. Effects' /\ Artifacts'
  BY <1>2, <1>3, <1>4, ArtifactsStay DEF IInv, Artifacts
<1>9. Grips(p)
  BY <1>1, <1>2 DEF Grips, At, Locked
<1> QED
  BY <1>1, <1>2, <1>4, <1>6, <1>7, <1>8, <1>9, PublicationSteps DEF At, IInv, Shape

LEMMA ListPlanKeeps ==
    ASSUME IInv, NEW p \in Actors, ListPlan(p) PROVE IInv'
<1>1. /\ Steps(p) /\ proc'[p].at = "save" /\ proc'[p].next = proc[p].next
      /\ proc'[p].read = proc[p].read
  BY GoesTo DEF ListPlan, IInv, Places
<1>2. /\ At(p, "list") /\ listed' = proc[p].read
      /\ proc' = [proc EXCEPT ![p].at = "save"]
      /\ UNCHANGED <<history, events, pointer, basis, lock, repository, publication, draft, staged, leftover, planFiles, marker,
                     indexed, pubLock, confirmed>>
  BY DEF ListPlan, journal
<1>3. /\ Publishable(proc[p].read) /\ indexed /\ Carries(p) /\ proc[p].next.publication = proc[p].read
      /\ proc[p].read \in planFiles /\ marker = "ours"
  BY <1>2 DEF IInv, Publishing, At, Carries, Artifacts
<1>4. Grows
  BY <1>2, <1>3 DEF Grows
<1>5. Publishable(proc[p].next.publication)'
  BY <1>1, <1>2, <1>3 DEF Publishable
<1>6. IsOutThere(proc[p].next.publication)'
  BY <1>1, <1>2, <1>3 DEF IsOutThere
<1>7. Publishing(p)'
  BY <1>1, <1>5, <1>6 DEF Publishing, At, Locked
<1>8. Ready(p)' /\ Written(p)'
  BY <1>2, <1>3, <1>4, CarriesOn DEF Places
<1>9. Effects' /\ Artifacts'
  BY <1>2, <1>3, <1>4, ArtifactsStay DEF IInv, Artifacts
<1>10. Grips(p)
  BY <1>1, <1>2 DEF Grips, At, Locked
<1> QED
  BY <1>1, <1>2, <1>4, <1>7, <1>8, <1>9, <1>10, PublicationSteps DEF At, IInv, Shape

LEMMA ImportProjectKeeps ==
    ASSUME IInv, NEW p \in Actors, ImportProject(p) PROVE IInv'
<1>1. /\ Steps(p) /\ proc'[p].at = "save" /\ proc'[p].next = proc[p].next
      /\ proc'[p].read = proc[p].read
  BY GoesTo DEF ImportProject, IInv, Places
<1>2. /\ At(p, "import") /\ indexed' = TRUE
      /\ proc' = [proc EXCEPT ![p].at = "save"]
      /\ UNCHANGED <<history, events, pointer, basis, lock, repository, publication, draft, staged, leftover, planFiles, marker,
                     listed, pubLock, confirmed>>
  BY DEF ImportProject, journal
<1>3. /\ Publishable(proc[p].read) /\ Carries(p) /\ proc[p].next.publication = proc[p].read
      /\ IsOutThere(proc[p].read)
  BY <1>2 DEF IInv, Publishing, At, Carries
<1>4. Grows
  BY <1>2 DEF Grows
<1>5. Publishable(proc[p].next.publication)'
  BY <1>1, <1>2, <1>3 DEF Publishable
<1>6. IsOutThere(proc[p].next.publication)'
  BY <1>1, <1>2, <1>3 DEF IsOutThere
<1>7. Publishing(p)'
  BY <1>1, <1>5, <1>6 DEF Publishing, At, Locked
<1>8. Ready(p)' /\ Written(p)'
  BY <1>2, <1>3, <1>4, CarriesOn DEF Places
<1>9. Effects' /\ Artifacts'
  BY <1>2, <1>3, <1>4, ArtifactsStay DEF IInv, Artifacts, IsOutThere
<1>10. Grips(p)
  BY <1>1, <1>2 DEF Grips, At, Locked
<1> QED
  BY <1>1, <1>2, <1>4, <1>7, <1>8, <1>9, <1>10, PublicationSteps DEF At, IInv, Shape

LEMMA TakeJournalKeeps ==
    ASSUME IInv, NEW p \in Actors, TakeJournal(p) PROVE IInv'
<1>1. /\ Steps(p) /\ proc'[p].at = "resume" /\ proc'[p].next = proc[p].next
      /\ proc'[p].read = proc[p].read
  BY GoesTo DEF TakeJournal, IInv, Places
<1>2. /\ At(p, "journal") /\ pubLock = Nobody /\ pubLock' = p
      /\ proc' = [proc EXCEPT ![p].at = "resume"]
      /\ UNCHANGED <<history, events, pointer, basis, lock, repository, draft, staged, leftover, planFiles, marker,
                     listed, indexed, confirmed>>
  BY DEF TakeJournal, journal, artifacts
<1>3. /\ Publishable(proc[p].read)
      /\ Carries(p) => proc[p].next.publication = proc[p].read
  BY <1>2 DEF IInv, Publishing, At
<1>4. Grows
  BY <1>2, GrowsWithout DEF IInv
<1>5. /\ DOMAIN publication' = DOMAIN NoPublication
      /\ \/ /\ publication.state = "none" /\ publication'.state = "prepared"
            /\ publication'.revision = proc[p].read
         \/ /\ publication' = publication
            /\ publication.state # "none" /\ publication.revision = proc[p].read
  BY DEF TakeJournal, NoPublication, IInv, Artifacts
<1>6. Publishable(proc[p].read)'
  BY <1>1, <1>2, <1>3 DEF Publishable
<1>7. Publishing(p)'
  <2>1. Carries(p)' => Carries(p)
    BY <1>1 DEF Carries
  <2> QED
    BY <1>1, <1>3, <1>5, <1>6, <2>1 DEF Publishing, At, Locked
<1>8. Ready(p)' /\ Written(p)'
  BY <1>2, <1>4, CarriesOn DEF Places
<1>9. Effects'
  BY <1>2, <1>5 DEF IInv, Effects, PlanTidied
<1>10. Artifacts'
  <2>1. \A r \in planFiles : Publishable(r)'
    BY <1>4, PublishableStays DEF IInv, Artifacts
  <2>2. Publishable(publication.revision)'
    BY <1>1, <1>5, <1>6 DEF Publishable
  <2>3. publication'.state \in {"none", "prepared", "staged", "plan_committed",
                                "marker_committed", "indexed", "materialized"}
    BY <1>5 DEF IInv, Artifacts
  <2>4. DOMAIN NoPublication' = DOMAIN NoPublication
    BY DEF NoPublication
  <2> QED
    BY <1>2, <1>5, <2>1, <2>2, <2>3, <2>4 DEF IInv, Artifacts, Latest, IsOutThere
<1>11. Grips(p)
  BY <1>1, <1>2 DEF Grips, At, Locked
<1> QED
  BY <1>1, <1>2, <1>4, <1>7, <1>8, <1>9, <1>10, <1>11, PublicationSteps DEF At, IInv, Shape

LEMMA RefusedJournalKeeps ==
    ASSUME IInv, NEW p \in Actors, RefusedJournal(p) PROVE IInv'
<1>1. lock # p /\ pubLock # p
  BY DEF IInv, Locks, At, Locked, RefusedJournal
<1> QED
  BY <1>1, RestKeeps DEF RefusedJournal

(* The publication as its locked section leaves it. *)
LEMMA LeaveKeeps ==
    ASSUME IInv, NEW p \in Actors, Leave(p), proc[p].at \in Locked, Grows,
           UNCHANGED <<history, events, pointer, basis, lock, repository, confirmed>>,
           IsOutThere(proc[p].read), UNCHANGED <<planFiles, marker, indexed, listed>>,
           Effects' /\ Artifacts'
    PROVE  IInv'
<1>1. /\ Publishable(proc[p].read)
      /\ Carries(p) => proc[p].next.publication = proc[p].read
  BY DEF IInv, Publishing
<1>2. pubLock = p /\ pubLock' = Nobody /\ lock # p
  BY DEF IInv, Locks, Leave, Locked
<1>3. CASE Rest(p)
  <2>1. Steps(p) /\ proc'[p] = Resting /\ proc'[p].at = "idle"
    BY <1>3, Rests DEF IInv, Resting
  <2>2. Ready(p)' /\ Written(p)' /\ Publishing(p)'
    BY <2>1, OwesNothing
  <2>3. Grips(p)
    BY <1>2, <2>1 DEF Grips, Locked
  <2> QED
    BY <2>1, <2>2, <2>3, PublicationSteps DEF At, IInv, Shape
<1>4. CASE proc[p].next # <<>> /\ proc' = [proc EXCEPT ![p].at = "import"]
  <2>1. /\ Steps(p) /\ proc'[p].at = "import" /\ proc'[p].next = proc[p].next
        /\ proc'[p].read = proc[p].read
    BY <1>4, GoesTo DEF IInv, Places
  <2>2. Carries(p)
    BY <1>4 DEF Carries
  <2>3. Publishable(proc[p].read)' /\ IsOutThere(proc[p].read)'
    BY <1>1, <2>1 DEF Publishable, IsOutThere
  <2>4. Publishing(p)'
    BY <1>1, <2>1, <2>2, <2>3 DEF Publishing, At, Locked
  <2>5. Ready(p)' /\ Written(p)'
    BY <1>4, <2>2, CarriesOn DEF Places
  <2>6. Grips(p)
    BY <1>2, <2>1 DEF Grips, Locked
  <2> QED
    BY <2>1, <2>4, <2>5, <2>6, PublicationSteps DEF At, IInv, Shape
<1> QED
  BY <1>3, <1>4 DEF Leave

LEMMA FailsKeeps ==
    ASSUME IInv, NEW p \in Actors, Fails(p), proc[p].at \in Locked,
           UNCHANGED <<journal, lock, repository, artifacts, confirmed>>
    PROVE  IInv'
<1>1. pubLock = p /\ pubLock' = Nobody /\ lock # p
  BY DEF IInv, Locks, Fails, Locked
<1>2. Steps(p) /\ proc'[p] = Resting /\ proc'[p].at = "idle"
  BY Rests DEF IInv, Resting, Fails
<1>3. /\ DOMAIN publication' = DOMAIN NoPublication
      /\ publication'.state = publication.state /\ publication'.revision = publication.revision
      /\ publication'.failed = TRUE /\ draft' = "recovery_required"
  BY DEF Fails, IInv, Artifacts, NoPublication
<1>4. Grows
  BY GrowsWithout DEF IInv, journal, artifacts
<1>5. Effects'
  BY <1>3 DEF IInv, Effects, PlanTidied, artifacts
<1>6. Artifacts'
  <2>1. \A r \in planFiles : Publishable(r)'
    BY <1>4, PublishableStays DEF IInv, Artifacts
  <2>2. publication.state # "none" => Publishable(publication.revision)'
    BY <1>3 DEF IInv, Artifacts, Publishable, journal
  <2>3. DOMAIN NoPublication' = DOMAIN NoPublication
    BY DEF NoPublication
  <2> QED
    BY <1>3, <2>1, <2>2, <2>3 DEF IInv, Artifacts, Latest, IsOutThere, artifacts, journal
<1>7. Grips(p)
  BY <1>1, <1>2 DEF Grips, Locked
<1>8. Ready(p)' /\ Written(p)' /\ Publishing(p)'
  BY <1>2, OwesNothing
<1> QED
  BY <1>2, <1>4, <1>5, <1>6, <1>7, <1>8, PublicationSteps DEF At, IInv, Shape, journal

LEMMA BlockedKeeps ==
    ASSUME IInv, NEW p \in Actors, Blocked(p) PROVE IInv'
BY FailsKeeps DEF Blocked, At, Locked

LEMMA FaultKeeps ==
    ASSUME IInv, NEW p \in Actors, Fault(p) PROVE IInv'
BY FailsKeeps DEF Fault, Locked

LEMMA CrashKeeps ==
    ASSUME IInv, NEW p \in Actors, Crash(p) PROVE IInv'
BY RestKeeps DEF Crash

LEMMA ResumeKeeps ==
    ASSUME IInv, NEW p \in Actors, Resume(p) PROVE IInv'
<1>1. /\ publication.state # "none" /\ publication.revision = proc[p].read
      /\ Publishable(proc[p].read) /\ proc[p].at \in Locked
      /\ Carries(p) => proc[p].next.publication = proc[p].read
  BY DEF IInv, Publishing, Resume, At, Locked
<1>2. CASE publication.state = "materialized" /\ Leave(p) /\ UNCHANGED <<publication, draft>>
  <2>1. Grows
    BY GrowsWithout DEF IInv, Resume, journal, artifacts
  <2>2. IsOutThere(proc[p].read)
    BY <1>1, <1>2 DEF IInv, Effects, IsOutThere
  <2>3. Effects' /\ Artifacts'
    BY <1>2, <2>1, ArtifactsStay DEF IInv, Resume, journal, artifacts, Artifacts
  <2> QED
    BY <1>1, <1>2, <2>1, <2>2, <2>3, LeaveKeeps DEF Resume, journal, artifacts
<1>3. CASE /\ publication.state # "materialized"
           /\ draft' = IF proc[p].draft \in {"draft", "recovery_required"}
                       THEN "publishing" ELSE draft
           /\ proc' = [proc EXCEPT ![p].at = "effect"]
           /\ UNCHANGED <<publication, pubLock>>
  <2>1. /\ Steps(p) /\ proc'[p].at = "effect" /\ proc'[p].next = proc[p].next
        /\ proc'[p].read = proc[p].read
    BY <1>3, GoesTo DEF IInv, Places
  <2>2. UNCHANGED <<history, events, pointer, basis, lock, repository, confirmed, staged, leftover,
                    planFiles, marker, listed, indexed>> /\ At(p, "resume")
    BY DEF Resume, journal, artifacts
  <2>3. Grows
    BY <2>2, GrowsWithout DEF IInv
  <2>4. Carries(p)' => Carries(p)
    BY <2>1 DEF Carries
  <2>5. Publishable(proc[p].read)'
    BY <1>1, <2>1, <2>2 DEF Publishable
  <2>6. Publishing(p)'
    BY <1>1, <1>3, <2>1, <2>4, <2>5 DEF Publishing, At, Locked
  <2>7. Ready(p)' /\ Written(p)'
    BY <1>3, <2>3, CarriesOn DEF Places
  <2>8. Effects'
    BY <1>3, <2>2 DEF IInv, Effects, PlanTidied
  <2>9. Artifacts'
    <3>1. \A r : Publishable(r)' = Publishable(r)
      BY <2>2 DEF Publishable
    <3> QED
      BY <1>3, <2>2, <3>1 DEF IInv, Artifacts, Latest, IsOutThere
  <2>10. Grips(p)
    BY <1>3, <2>1, <2>2 DEF Grips, At, Locked
  <2> QED
    BY <1>1, <2>1, <2>2, <2>3, <2>6, <2>7, <2>8, <2>9, <2>10, PublicationSteps DEF At, IInv, Shape
<1>4. CASE Fails(p)
  BY <1>1, <1>4, FailsKeeps DEF Resume
<1> QED
  BY <1>2, <1>3, <1>4 DEF Resume

(* What the holder of the lock knows. *)
LEMMA Holds ==
    ASSUME IInv, NEW p \in Actors, proc[p].at \in {"effect", "unlink", "index", "turn"}
    PROVE  /\ publication.state \in {"prepared", "staged", "plan_committed",
                                     "marker_committed", "indexed"}
           /\ publication.revision = proc[p].read /\ Publishable(proc[p].read)
           /\ Carries(p) => proc[p].next.publication = proc[p].read
           /\ proc[p].at \in Locked /\ lock # p /\ pubLock = p
BY DEF IInv, Publishing, Locked, Artifacts, Locks

LEMMA IndexProjectKeeps ==
    ASSUME IInv, NEW p \in Actors, IndexProject(p) PROVE IInv'
<1>1. /\ Steps(p) /\ proc'[p].at = "turn" /\ proc'[p].next = proc[p].next
      /\ proc'[p].read = proc[p].read
  BY GoesTo DEF IndexProject, IInv, Places
<1>2. /\ At(p, "index") /\ indexed' = TRUE
      /\ proc' = [proc EXCEPT ![p].at = "turn"]
      /\ UNCHANGED <<history, events, pointer, basis, lock, repository, publication, draft, staged, leftover,
                     planFiles, marker, listed, pubLock, confirmed>>
  BY DEF IndexProject, journal
<1>3. /\ publication.state = "marker_committed" /\ publication.revision = proc[p].read
      /\ Publishable(proc[p].read) /\ listed = proc[p].read /\ proc[p].at \in Locked
      /\ Carries(p) => proc[p].next.publication = proc[p].read
  BY <1>2, Holds DEF IInv, Publishing, At
<1>4. marker = "ours"
  BY <1>3 DEF IInv, Effects
<1>5. Grows
  BY <1>2 DEF Grows
<1>6. Publishing(p)'
  <2>1. Publishable(proc[p].read)'
    BY <1>1, <1>2, <1>3 DEF Publishable
  <2>2. Effected(proc[p].read)'
    BY <1>1, <1>2, <1>3 DEF Effected
  <2>3. Carries(p)' => Carries(p)
    BY <1>1 DEF Carries
  <2> QED
    BY <1>1, <1>2, <1>3, <2>1, <2>2, <2>3 DEF Publishing, At, Locked
<1>7. Ready(p)' /\ Written(p)'
  BY <1>2, <1>5, CarriesOn DEF Places
<1>8. Effects' /\ Artifacts'
  BY <1>2, <1>4, <1>5, ArtifactsStay DEF IInv, Artifacts
<1>9. Grips(p)
  BY <1>1, <1>2 DEF Grips, At, Locked
<1> QED
  BY <1>1, <1>2, <1>3, <1>5, <1>6, <1>7, <1>8, <1>9, PublicationSteps DEF At, IInv, Shape

(* The effects that link nothing. *)
LEMMA EffectKeeps ==
    ASSUME IInv, NEW p \in Actors, Effect(p) PROVE IInv'
<1> PICK place \in {"index", "turn"} :
       place = IF publication.state = "marker_committed" THEN "index" ELSE "turn"
  OBVIOUS
<1>0. proc' = [proc EXCEPT ![p].at = place] /\ place \in Places
  BY DEF Effect, Places
<1>1. /\ Steps(p) /\ proc'[p].at = place /\ proc'[p].next = proc[p].next
      /\ proc'[p].read = proc[p].read /\ proc' = [proc EXCEPT ![p].at = place]
  BY <1>0, GoesTo DEF IInv
<1>2. /\ At(p, "effect")
      /\ UNCHANGED <<history, events, pointer, basis, lock, repository, publication, leftover,
                     planFiles, marker, indexed, pubLock, confirmed>>
  BY DEF Effect, journal
<1>3. /\ publication.state \in {"prepared", "marker_committed", "indexed"}
      /\ publication.revision = proc[p].read /\ Publishable(proc[p].read)
      /\ Carries(p) => proc[p].next.publication = proc[p].read
      /\ proc[p].at \in Locked
  BY <1>2, Holds DEF At, Effect
<1>4. /\ staged \subseteq {"plan", "marker"} /\ (indexed => marker = "ours")
      /\ publication.state \in {"marker_committed", "indexed"} =>
            /\ proc[p].read \in planFiles /\ PlanTidied
            /\ marker = "ours" /\ staged \subseteq leftover
      /\ publication.state = "indexed" => listed = proc[p].read /\ indexed
  BY <1>3 DEF IInv, Effects, Artifacts
<1>5. /\ publication.state = "prepared" =>
            staged' = {"plan", "marker"} /\ UNCHANGED <<listed, draft>>
      /\ publication.state = "marker_committed" =>
            listed' = proc[p].read /\ UNCHANGED <<staged, draft>>
      /\ publication.state = "indexed" =>
            draft' = "materialized" /\ UNCHANGED <<staged, listed>>
  BY DEF Effect
<1>6. Grows
  BY <1>2, <1>3, <1>5 DEF Grows
<1>8. Effects'
  BY <1>2, <1>3, <1>4, <1>5 DEF Effects, PlanTidied
<1>9. \A r : Publishable(r)' = Publishable(r)
  BY <1>2 DEF Publishable
<1>10. history # <<>> /\ Latest.publication # 0 => IsOutThere(Latest.publication)'
  BY <1>2, <1>6, LatestStaysOut
<1>11. Artifacts'
  <2>1. /\ staged' \subseteq {"plan", "marker"}
        /\ draft' \in {"draft", "publishing", "recovery_required", "materialized"}
    BY <1>3, <1>4, <1>5 DEF IInv, Artifacts
  <2> QED
    BY <1>2, <1>4, <1>9, <1>10, <2>1 DEF IInv, Artifacts, Latest
<1>12. Publishing(p)'
  <2>1. Carries(p)' => Carries(p)
    BY <1>1 DEF Carries
  <2>2. Effected(proc[p].read)' \/ place = "index"
    BY <1>1, <1>2, <1>3, <1>5 DEF Effected
  <2>3. place = "index" => publication'.state = "marker_committed" /\ listed' = proc[p].read
    BY <1>2, <1>5
  <2> QED
    BY <2>3, <1>1, <1>2, <1>3, <1>9, <2>1, <2>2 DEF Publishing, At, Locked
<1>13. Ready(p)' /\ Written(p)'
  <2>1. place \in Places \ {"merge"} /\ place \notin {"save", "plan", "list", "import"}
    BY DEF Places
  <2> QED
    BY <1>1, <1>6, <2>1, CarriesOn
<1>14. Grips(p)
  BY <1>1, <1>2, <1>3 DEF Grips, At, Locked
<1> QED
  BY <1>1, <1>2, <1>3, <1>6, <1>8, <1>11, <1>12, <1>13, <1>14, PublicationSteps DEF At, IInv, Shape

(* A commit links its destination, then removes the staged file: what is     *)
(* there then is all that the invariant has to know.                         *)
LEMMA CommitKeeps ==
    ASSUME IInv, NEW p \in Actors, proc[p].at \in {"effect", "unlink"},
           NEW place \in {"unlink", "turn"}, proc' = [proc EXCEPT ![p].at = place],
           publication.state \in {"staged", "plan_committed"},
           UNCHANGED <<history, events, pointer, basis, lock, repository, publication, draft,
                       listed, indexed, pubLock, confirmed>>,
           planFiles' \in {planFiles, planFiles \cup {proc[p].read}},
           marker' = marker \/ marker' = "ours",
           staged' \subseteq staged, leftover \subseteq leftover',
           place = "unlink" => Linked(proc[p].read)',
           place = "turn" => Effected(proc[p].read)'
    PROVE  IInv'
<1>1. /\ Steps(p) /\ proc'[p].at = place /\ proc'[p].next = proc[p].next
      /\ proc'[p].read = proc[p].read
  BY GoesTo DEF IInv, Places
<1>2. /\ publication.revision = proc[p].read /\ Publishable(proc[p].read)
      /\ Carries(p) => proc[p].next.publication = proc[p].read
      /\ proc[p].at \in Locked /\ lock # p
  BY Holds
<1>3. Grows
  BY <1>2 DEF Grows
<1>4. Effects'
  BY DEF IInv, Effects, PlanTidied
<1>5. \A r : Publishable(r)' = Publishable(r)
  BY DEF Publishable
<1>6. history # <<>> /\ Latest.publication # 0 => IsOutThere(Latest.publication)'
  BY <1>3, LatestStaysOut
<1>7. Artifacts'
  <2>1. \A r \in planFiles' : Publishable(r)'
    BY <1>2, <1>5 DEF IInv, Artifacts
  <2> QED
    BY <1>5, <1>6, <2>1 DEF IInv, Artifacts, Latest
<1>8. Publishing(p)'
  <2>1. Carries(p)' => Carries(p)
    BY <1>1 DEF Carries
  <2>2. Publishable(proc[p].read)' /\ publication'.state \notin {"none", "materialized"}
    BY <1>1, <1>2, <1>5
  <2> QED
    BY <1>1, <1>2, <2>1, <2>2 DEF Publishing, At, Locked
<1>9. Ready(p)' /\ Written(p)'
  <2>1. place \in Places \ {"merge"} /\ place \notin {"save", "plan", "list", "import"}
    BY DEF Places
  <2> QED
    BY <1>3, <2>1, CarriesOn
<1>10. Grips(p)
  BY <1>1, <1>2 DEF Grips, At, Locked
<1> QED
  BY <1>1, <1>2, <1>3, <1>4, <1>7, <1>8, <1>9, <1>10, PublicationSteps DEF At, IInv, Shape

LEMMA CommitPlanKeeps ==
    ASSUME IInv, NEW p \in Actors, CommitPlan(p) PROVE IInv'
<1>1. /\ At(p, "effect") /\ publication.state = "staged"
      /\ planFiles' = planFiles \cup {proc[p].read} /\ marker' = marker
      /\ UNCHANGED <<history, events, pointer, basis, lock, repository, publication, draft,
                     listed, indexed, pubLock, confirmed>>
  BY DEF CommitPlan, journal
<1>2. CASE Tidies(p, "plan")
  <2>1. /\ proc' = [proc EXCEPT ![p].at = "turn"]
        /\ staged' \subseteq staged /\ leftover \subseteq leftover' /\ PlanTidied'
    BY <1>2 DEF Tidies, PlanTidied
  <2>2. Effected(proc[p].read)'
    <3>1. proc'[p].read = proc[p].read
      BY <2>1 DEF IInv, Shape
    <3> QED
      BY <1>1, <2>1, <3>1 DEF Effected
  <2> QED
    BY <1>1, <2>1, <2>2, CommitKeeps DEF At
<1>3. CASE proc' = [proc EXCEPT ![p].at = "unlink"] /\ UNCHANGED <<staged, leftover>>
  <2>1. Linked(proc[p].read)'
    <3>1. proc'[p].read = proc[p].read
      BY <1>3 DEF IInv, Shape
    <3> QED
      BY <1>1, <3>1 DEF Linked
  <2> QED
    BY <1>1, <1>3, <2>1, CommitKeeps DEF At
<1> QED
  BY <1>2, <1>3 DEF CommitPlan

LEMMA CommitMarkerKeeps ==
    ASSUME IInv, NEW p \in Actors, CommitMarker(p) PROVE IInv'
<1>1. /\ At(p, "effect") /\ publication.state = "plan_committed"
      /\ marker' = "ours" /\ planFiles' = planFiles
      /\ UNCHANGED <<history, events, pointer, basis, lock, repository, publication, draft,
                     listed, indexed, pubLock, confirmed>>
  BY DEF CommitMarker, journal
<1>2. CASE Tidies(p, "marker")
  <2>1. staged \subseteq {"plan", "marker"} /\ PlanTidied
    BY <1>1 DEF IInv, Effects, Artifacts
  <2>2. /\ proc' = [proc EXCEPT ![p].at = "turn"]
        /\ staged' \subseteq staged /\ leftover \subseteq leftover' /\ staged' \subseteq leftover'
    BY <1>2, <2>1 DEF Tidies, PlanTidied
  <2>3. Effected(proc[p].read)'
    BY <1>1, <2>2 DEF Effected
  <2> QED
    BY <1>1, <2>2, <2>3, CommitKeeps DEF At
<1>3. CASE proc' = [proc EXCEPT ![p].at = "unlink"] /\ UNCHANGED <<staged, leftover>>
  <2>1. Linked(proc[p].read)'
    BY <1>1 DEF Linked
  <2> QED
    BY <1>1, <1>3, <2>1, CommitKeeps DEF At
<1> QED
  BY <1>2, <1>3 DEF CommitMarker

LEMMA UnlinkStagedKeeps ==
    ASSUME IInv, NEW p \in Actors, UnlinkStaged(p) PROVE IInv'
<1>1. /\ At(p, "unlink") /\ proc' = [proc EXCEPT ![p].at = "turn"]
      /\ staged' = staged \ {IF publication.state = "staged" THEN "plan" ELSE "marker"}
      /\ UNCHANGED <<history, events, pointer, basis, lock, repository, publication, draft, leftover,
                     planFiles, marker, listed, indexed, pubLock, confirmed>>
  BY DEF UnlinkStaged, journal
<1>2. Linked(proc[p].read) /\ staged \subseteq {"plan", "marker"}
      /\ (publication.state = "plan_committed" => PlanTidied)
  BY <1>1 DEF IInv, Publishing, Effects, Artifacts
<1>3. Effected(proc[p].read)'
  <2>1. proc'[p].read = proc[p].read
    BY <1>1 DEF IInv, Shape
  <2>2. CASE publication.state = "staged" /\ proc[p].read \in planFiles
    BY <1>1, <2>1, <2>2 DEF Effected, PlanTidied
  <2>3. CASE publication.state = "plan_committed" /\ marker = "ours"
    BY <1>1, <1>2, <2>1, <2>3 DEF Effected, PlanTidied
  <2> QED
    BY <1>2, <2>2, <2>3 DEF Linked
<1> QED
  BY <1>1, <1>2, <1>3, CommitKeeps DEF At, Linked

(* The order of the states of the publication journal. *)
LEMMA NextStates ==
    /\ NextState("prepared") = "staged" /\ NextState("staged") = "plan_committed"
    /\ NextState("plan_committed") = "marker_committed"
    /\ NextState("marker_committed") = "indexed" /\ NextState("indexed") = "materialized"
<1>1. /\ States[1] = "prepared" /\ States[2] = "staged" /\ States[3] = "plan_committed"
      /\ States[4] = "marker_committed" /\ States[5] = "indexed" /\ States[6] = "materialized"
  BY DEF States
<1>2. 1..5 = {1, 2, 3, 4, 5}
  OBVIOUS
<1>3. ASSUME NEW m \in 1..5 PROVE NextState(States[m]) = States[m + 1]
  <2>1. \A n \in 1..5 : States[n] = States[m] => n = m
    BY <1>1, <1>2
  <2>2. (CHOOSE n \in 1..5 : States[n] = States[m]) = m
    BY <2>1
  <2> QED
    BY <2>2 DEF NextState
<1> QED
  BY <1>1, <1>2, <1>3

(* The journal moves on to the state whose effect is there. *)
LEMMA TurnKeeps ==
    ASSUME IInv, NEW p \in Actors, Turn(p) PROVE IInv'
<1>1. /\ At(p, "turn")
      /\ UNCHANGED <<history, events, pointer, basis, lock, repository, draft, staged, leftover,
                     planFiles, marker, listed, indexed, confirmed>>
  BY DEF Turn, journal, artifacts
<1>2. /\ publication.state \in {"prepared", "staged", "plan_committed",
                                "marker_committed", "indexed"}
      /\ publication.revision = proc[p].read /\ Publishable(proc[p].read)
      /\ Carries(p) => proc[p].next.publication = proc[p].read
      /\ proc[p].at \in Locked /\ lock # p /\ pubLock = p
  BY <1>1, Holds DEF At
<1>3. /\ NextState("prepared") = "staged" /\ NextState("staged") = "plan_committed"
      /\ NextState("plan_committed") = "marker_committed"
      /\ NextState("marker_committed") = "indexed" /\ NextState("indexed") = "materialized"
  BY NextStates
<1>4. /\ DOMAIN publication' = DOMAIN NoPublication
      /\ publication'.revision = proc[p].read
      /\ publication'.state = NextState(publication.state)
  BY <1>2 DEF Turn, IInv, Artifacts, NoPublication
<1>5. Effected(proc[p].read)
  BY <1>1 DEF IInv, Publishing
<1>6. Grows
  BY <1>1, GrowsWithout DEF IInv
<1>7. Effects'
  <2>1. /\ publication.state \in {"plan_committed", "marker_committed", "indexed"} =>
              proc[p].read \in planFiles /\ PlanTidied
        /\ publication.state \in {"marker_committed", "indexed"} =>
              marker = "ours" /\ staged \subseteq leftover
        /\ publication.state = "indexed" => listed = proc[p].read /\ indexed
    BY <1>2 DEF IInv, Effects
  <2>2. /\ publication.state = "staged" => proc[p].read \in planFiles /\ PlanTidied
        /\ publication.state = "plan_committed" => marker = "ours" /\ staged \subseteq leftover
        /\ publication.state = "marker_committed" => listed = proc[p].read /\ indexed
        /\ publication.state = "indexed" => draft = "materialized"
    BY <1>5 DEF Effected
  <2> QED
    BY <1>1, <1>2, <1>3, <1>4, <2>1, <2>2 DEF Effects, PlanTidied
<1>8. \A r : Publishable(r)' = Publishable(r)
  BY <1>1 DEF Publishable
<1>9. Artifacts'
  <2>1. publication'.state \in {"staged", "plan_committed", "marker_committed", "indexed",
                                "materialized"}
    BY <1>2, <1>3, <1>4
  <2>2. Publishable(publication.revision)'
    BY <1>2, <1>4, <1>8
  <2>3. DOMAIN NoPublication' = DOMAIN NoPublication
    BY DEF NoPublication
  <2> QED
    BY <1>1, <1>4, <1>8, <2>1, <2>2, <2>3 DEF IInv, Artifacts, Latest, IsOutThere
<1>10. CASE publication'.state = "materialized"
  <2>1. publication.state = "indexed" /\ Leave(p)
    BY <1>2, <1>3, <1>4, <1>10 DEF Turn
  <2>2. IsOutThere(proc[p].read)
    BY <1>2, <2>1 DEF IInv, Effects, IsOutThere
  <2> QED
    BY <1>1, <1>2, <1>6, <1>7, <1>9, <2>1, <2>2, LeaveKeeps
<1>11. CASE publication'.state # "materialized"
  <2>1. proc' = [proc EXCEPT ![p].at = "effect"] /\ UNCHANGED pubLock
    BY <1>4, <1>11 DEF Turn
  <2>2. /\ Steps(p) /\ proc'[p].at = "effect" /\ proc'[p].next = proc[p].next
        /\ proc'[p].read = proc[p].read
    BY <2>1, GoesTo DEF IInv, Places
  <2>3. Publishing(p)'
    <3>1. Carries(p)' => Carries(p)
      BY <2>2 DEF Carries
    <3>2. publication'.state # "none"
      BY <1>2, <1>3, <1>4
    <3>3. Publishable(proc[p].read)'
      BY <1>2, <1>8, <2>2
    <3> QED
      BY <1>2, <1>4, <1>11, <2>2, <3>1, <3>2, <3>3 DEF Publishing, At, Locked
  <2>4. Ready(p)' /\ Written(p)'
    BY <1>6, <2>1, CarriesOn DEF Places
  <2>5. Grips(p)
    BY <1>1, <1>2, <2>1, <2>2 DEF Grips, At, Locked
  <2> QED
    BY <1>1, <1>2, <1>6, <1>7, <1>9, <2>2, <2>3, <2>4, <2>5, PublicationSteps DEF At, IInv, Shape
<1> QED
  BY <1>10, <1>11

-----------------------------------------------------------------------------
(* What is not the step of a process, and steps of nobody at all. *)

LEMMA AroundKeeps ==
    ASSUME IInv, EnterMarked \/ ForeignMarker \/ RepositoryMoves \/ UNCHANGED vars
    PROVE  IInv'
<1> Doctor \in Actors
  BY DEF Actors
<1>1. /\ UNCHANGED <<history, events, pointer, basis, lock, publication, draft, staged, leftover,
                     planFiles, listed, pubLock, proc, confirmed>>
      /\ repository' \in Snapshots
      /\ marker = "ours" => marker' = "ours"
      /\ marker' \in {"none", "ours", "foreign"} /\ indexed' \in BOOLEAN
      /\ indexed => indexed'
      /\ indexed' => marker' = "ours"
  <2>1. /\ repository \in Snapshots /\ marker \in {"none", "ours", "foreign"}
        /\ indexed \in BOOLEAN /\ (indexed => marker = "ours")
    BY DEF IInv, Shape, Artifacts
  <2>2. CASE EnterMarked
    BY <2>1, <2>2 DEF EnterMarked, journal
  <2>3. CASE ForeignMarker
    BY <2>1, <2>3 DEF ForeignMarker, journal
  <2>4. CASE RepositoryMoves
    BY <2>1, <2>4 DEF RepositoryMoves, journal, artifacts
  <2>5. CASE UNCHANGED vars
    BY <2>1, <2>5 DEF vars, journal, artifacts
  <2> QED
    BY <2>2, <2>3, <2>4, <2>5
<1>3. Steps(Doctor) /\ proc'[Doctor] = proc[Doctor]
  BY <1>1, StaysPut DEF IInv
<1>4. Grows
  BY <1>1 DEF Grows
<1>5. Grips(Doctor)
  BY <1>1 DEF Grips
<1>6. Ready(Doctor)' /\ Written(Doctor)' /\ Publishing(Doctor)'
  <2>1. Carries(Doctor)' => Carries(Doctor)
    BY <1>3 DEF Carries
  <2>2. Ready(Doctor)'
    BY <1>3, <1>4, <2>1, ReadyStays DEF IInv
  <2>3. Written(Doctor)'
    BY <1>3, <1>4, WrittenStays DEF IInv, At
  <2>4. Publishing(Doctor)'
    BY <1>1, <1>3, <1>4, PublishingStays DEF IInv
  <2> QED
    BY <2>2, <2>3, <2>4
<1>7. Effects' /\ Artifacts'
  BY <1>1, <1>4, ArtifactsStay DEF IInv, Artifacts
<1> QED
  BY <1>1, <1>3, <1>4, <1>5, <1>6, <1>7, PublicationSteps DEF At

-----------------------------------------------------------------------------
(* The inductive invariant. *)

LEMMA InitKeeps == Init => IInv
<1> SUFFICES ASSUME Init PROVE IInv
  OBVIOUS
<1>1. /\ history = <<>> /\ events = <<>> /\ basis = <<>> /\ pointer = 0
      /\ \A p \in Actors : proc[p] = Resting /\ proc[p].at = "idle"
      /\ DOMAIN proc = Actors
  BY DEF Init, Resting
<1>2. Shape
  <2>1. IsSequence(history)
    BY <1>1 DEF IsSequence
  <2> QED
    BY <1>1, <2>1 DEF Shape, Init, Resting, Places
<1>3. Locks
  BY <1>1, FramingAssumption DEF Locks, Init, Locked, Actors, Nobody, Doctor
<1>4. Recorded /\ Journal
  BY <1>1 DEF Recorded, Journal, At
<1>5. ASSUME NEW p \in Actors PROVE Ready(p) /\ Written(p) /\ Publishing(p)
  <2>1. proc[p].at = "idle" /\ proc[p].next = <<>> /\ proc[p].ops = <<>>
    BY <1>1 DEF Resting
  <2> QED
    BY <2>1 DEF Ready, Carries, Written, Publishing, At, Locked
<1>6. Effects /\ Artifacts
  BY <1>1 DEF Effects, Artifacts, Init, NoPublication
<1> QED
  BY <1>2, <1>3, <1>4, <1>5, <1>6 DEF IInv

LEMMA StepKeeps ==
    ASSUME IInv, [Next]_vars PROVE IInv'
<1>1. ASSUME NEW p \in Proc, Enter(p) \/ Submit(p) \/ BeginPublish(p) PROVE IInv'
  BY <1>1, EnterKeeps, SubmitKeeps, BeginPublishKeeps
<1>2. ASSUME NEW p \in Proc, NEW kind \in {"intent", "grounded"}, Stabilize(p, kind) PROVE IInv'
  BY <1>2, StabilizeKeeps
<1>3. CASE Recover
  BY <1>3, RecoverKeeps
<1>4. ASSUME NEW p \in Actors, StepOfPlan(p) PROVE IInv'
  BY <1>4, MergeKeeps, SaveRevisionKeeps, SaveConflictKeeps, SaveEventKeeps, SavePointerKeeps,
     WritePlanKeeps, ListPlanKeeps, ImportProjectKeeps DEF StepOfPlan
<1>5. ASSUME NEW p \in Actors, StepOfPublication(p) PROVE IInv'
  BY <1>5, TakeJournalKeeps, RefusedJournalKeeps, ResumeKeeps, EffectKeeps, CommitPlanKeeps,
     CommitMarkerKeeps, UnlinkStagedKeeps, IndexProjectKeeps, TurnKeeps, BlockedKeeps DEF StepOfPublication, Commit
<1>6. ASSUME NEW p \in Actors, Fault(p) \/ Crash(p) PROVE IInv'
  BY <1>6, FaultKeeps, CrashKeeps
<1>7. CASE EnterMarked \/ ForeignMarker \/ RepositoryMoves \/ UNCHANGED vars
  BY <1>7, AroundKeeps
<1> QED
  BY <1>1, <1>2, <1>3, <1>4, <1>5, <1>6, <1>7 DEF Next

LEMMA Inductive == Spec => []IInv
<1>1. IInv /\ [Next]_vars => IInv'
  BY StepKeeps
<1> QED
  BY <1>1, InitKeeps, PTL DEF Spec

-----------------------------------------------------------------------------
(* What follows from it. *)

(* The typing of Framing: the last revision is consistent and numbered by its *)
(* place, events and pointer never lead, and each lock is held exactly while  *)
(* its holder is in the section it protects (FsFramingStore.save,             *)
(* FsProjectPublicationStore.publish).                                        *)
THEOREM TypeCorrect == Spec => []TypeOK
<1>1. IInv => TypeOK
  <2> SUFFICES ASSUME IInv PROVE TypeOK
    OBVIOUS
  <2>1. history # <<>> => Latest.revision = Len(history) /\ Consistent(Latest)
    BY LatestIs DEF IInv, Journal, WellMade
  <2>2. publication.state \in {"none"} \cup {States[n] : n \in DOMAIN States}
    <3>1. DOMAIN States = 1..6
      BY DEF States
    <3>2. /\ States[1] = "prepared" /\ States[2] = "staged" /\ States[3] = "plan_committed"
          /\ States[4] = "marker_committed" /\ States[5] = "indexed" /\ States[6] = "materialized"
      BY DEF States
    <3>3. {"prepared", "staged", "plan_committed", "marker_committed", "indexed", "materialized"}
            \subseteq {States[n] : n \in DOMAIN States}
      BY <3>1, <3>2
    <3> QED
      BY <3>3 DEF IInv, Artifacts
  <2> QED
    BY <2>1, <2>2 DEF IInv, Shape, Locks, Recorded, Artifacts, Locked, TypeOK
<1> QED
  BY <1>1, Inductive, PTL

(* A stabilization binds what the human was shown: the last plan names        *)
(* revisions he confirmed, and after the second one its statements, evidence  *)
(* and decomposition are still those (FramingService.stabilize).              *)
THEOREM StabilizationBinds == Spec => []ConfirmedIsShown
<1>1. IInv => ConfirmedIsShown
  BY LatestIs DEF IInv, Journal, WellMade, ConfirmedIsShown
<1> QED
  BY <1>1, Inductive, PTL

(* Only a revision confirmed twice is published; a plan marked published is   *)
(* out there, and a journal that says materialized has left nothing staged    *)
(* but a file whose removal failed when its commit was repeated               *)
(* (FramingService.publish, FsProjectPublicationStore.publish, linkExclusive). *)
THEOREM PublicationIsConfirmed == Spec => []PublishedIsConfirmed
<1>1. IInv => PublishedIsConfirmed
  <2> SUFFICES ASSUME IInv PROVE PublishedIsConfirmed
    OBVIOUS
  <2>1. ASSUME NEW r \in planFiles
        PROVE  r \in DOMAIN history /\ history[r].grounded # 0 /\ BindsWhatWasShown(history[r])
    BY DEF IInv, Artifacts, Publishable, Journal, WellMade
  <2>2. history # <<>> /\ Latest.publication # 0 => IsOutThere(Latest.publication)
    BY DEF IInv, Artifacts
  <2>3. publication.state = "materialized" =>
           /\ IsOutThere(publication.revision)
           /\ staged \subseteq leftover
           /\ draft = "materialized" \/ publication.failed
    BY DEF IInv, Effects, IsOutThere
  <2> QED
    BY <2>1, <2>2, <2>3 DEF PublishedIsConfirmed
<1> QED
  BY <1>1, Inductive, PTL

(* The journal implements FramingCycle: whatever the interleaving and         *)
(* wherever a process crashes, each save appends one revision that follows    *)
(* from all the ones before it (FsFramingStore.save).                         *)
THEOREM JournalImplementsCycle == Spec => JournalIsAtomic
<1>1. Init => Cycle!Init
  BY DEF Init, Cycle!Init
<1>2. IInv /\ [Next]_vars => [Cycle!Next]_history
  <2> SUFFICES ASSUME IInv, [Next]_vars PROVE [Cycle!Next]_history
    OBVIOUS
  <2>1. ASSUME NEW p \in Actors, SaveRevision(p) PROVE Cycle!Next
    <3> PICK plan : plan = proc[p].next
      OBVIOUS
    <3>1. history' = Append(history, plan)
      BY <2>1 DEF SaveRevision
    <3>2. Len(history') = Len(history) + 1 /\ history'[Len(history) + 1] = plan
      BY <3>1, Appended DEF IInv, Shape
    <3>3. Cycle!Last' = plan
      BY <3>2 DEF Cycle!Last
    <3>4. Follows(history, plan)
      BY <2>1, SavedFollows DEF SaveRevision
    <3> QED
      BY <3>1, <3>2, <3>3, <3>4 DEF Cycle!Next
  <2>2. CASE UNCHANGED history
    BY <2>2
  <2>3. ASSUME NEW p \in Actors, StepOfPlan(p) PROVE SaveRevision(p) \/ UNCHANGED history
    BY <2>3 DEF StepOfPlan, Merge, SaveConflict, SaveEvent, SavePointer, WritePlan, ListPlan,
       ImportProject, journal
  <2>4. ASSUME NEW p \in Actors, StepOfPublication(p) PROVE UNCHANGED history
    BY <2>4 DEF StepOfPublication, TakeJournal, RefusedJournal, Resume, Effect, Commit, CommitPlan,
       CommitMarker, UnlinkStaged, Tidies, IndexProject, Turn, Blocked, journal
  <2>5. ASSUME NEW p \in Proc, Enter(p) \/ Submit(p) \/ BeginPublish(p) PROVE UNCHANGED history
    BY <2>5 DEF Enter, Submit, BeginPublish, journal
  <2>6. ASSUME NEW p \in Proc, NEW kind \in {"intent", "grounded"}, Stabilize(p, kind)
        PROVE  UNCHANGED history
    BY <2>6 DEF Stabilize, journal
  <2>7. ASSUME NEW p \in Actors, Fault(p) \/ Crash(p) PROVE UNCHANGED history
    BY <2>7 DEF Fault, Crash, journal
  <2>8. ASSUME Recover \/ EnterMarked \/ ForeignMarker \/ RepositoryMoves \/ UNCHANGED vars
        PROVE  UNCHANGED history
    BY <2>8 DEF Recover, EnterMarked, ForeignMarker, RepositoryMoves, vars, journal
  <2> QED
    BY <2>1, <2>2, <2>3, <2>4, <2>5, <2>6, <2>7, <2>8 DEF Next
<1> QED
  BY <1>1, <1>2, Inductive, PTL DEF Spec, JournalIsAtomic, Cycle!Spec

(* The marker of another project is never replaced, also when it appears      *)
(* between the check of the root and the commit (linkExclusive).              *)
THEOREM ForeignMarkerStays == Spec => ForeignMarkerKept
<1>1. [Next]_vars => (marker = "foreign" => marker' = "foreign")
  <2> SUFFICES ASSUME [Next]_vars, marker = "foreign" PROVE marker' = "foreign"
    OBVIOUS
  <2>1. ASSUME NEW p \in Actors, StepOfPlan(p) PROVE UNCHANGED marker
    BY <2>1 DEF StepOfPlan, Merge, SaveRevision, SaveConflict, SaveEvent, SavePointer, WritePlan,
       ListPlan, ImportProject, artifacts
  <2>2. ASSUME NEW p \in Actors, StepOfPublication(p) PROVE UNCHANGED marker
    BY <2>2 DEF StepOfPublication, TakeJournal, RefusedJournal, Resume, Effect, Commit, CommitPlan,
       CommitMarker, UnlinkStaged, Tidies, IndexProject, Turn, Blocked, LinkedMarker, artifacts
  <2>3. ASSUME NEW p \in Proc, Enter(p) \/ Submit(p) \/ BeginPublish(p) PROVE UNCHANGED marker
    BY <2>3 DEF Enter, Submit, BeginPublish, artifacts
  <2>4. ASSUME NEW p \in Proc, NEW kind \in {"intent", "grounded"}, Stabilize(p, kind)
        PROVE  UNCHANGED marker
    BY <2>4 DEF Stabilize, artifacts
  <2>5. ASSUME NEW p \in Actors, Fault(p) \/ Crash(p) PROVE UNCHANGED marker
    BY <2>5 DEF Fault, Crash, artifacts
  <2>6. ASSUME Recover \/ EnterMarked \/ ForeignMarker \/ RepositoryMoves \/ UNCHANGED vars
        PROVE  UNCHANGED marker
    BY <2>6 DEF Recover, EnterMarked, ForeignMarker, RepositoryMoves, vars, artifacts
  <2> QED
    BY <2>1, <2>2, <2>3, <2>4, <2>5, <2>6 DEF Next
<1> QED
  BY <1>1, PTL DEF Spec, ForeignMarkerKept

-----------------------------------------------------------------------------
(* Counting, for what a delta computes operation by operation.                *)

(* The least number of a set of numbers. *)
LEMMA LeastNumber ==
    ASSUME NEW T \in SUBSET Nat, T # {}
    PROVE  \E x \in T : \A y \in T : x <= y
<1>1. \E x \in T : \A y \in T : ~(<<y, x>> \in OpToRel(<, Nat))
  BY WFMin, NatLessThanWellFounded
<1>2. PICK x \in T : \A y \in T : ~(<<y, x>> \in OpToRel(<, Nat))
  BY <1>1
<1>3. \A y \in T : ~(y < x)
  BY <1>2 DEF OpToRel
<1> QED
  BY <1>3

(* A set of numbers that has 0, and with a number the next one, has all. *)
LEMMA Counting ==
    ASSUME NEW S, 0 \in S, \A n \in Nat : n \in S => n + 1 \in S
    PROVE  Nat \subseteq S
<1> SUFFICES ASSUME Nat \ S # {} PROVE FALSE
  OBVIOUS
<1>1. PICK x \in Nat \ S : \A y \in Nat \ S : x <= y
  BY LeastNumber
<1>2. x - 1 \in Nat
  BY <1>1
<1>3. x - 1 \in S /\ (x - 1) + 1 = x
  BY <1>1, <1>2
<1> QED
  BY <1>1, <1>2, <1>3

(* Flattening sequences over a set gives a sequence over that set. *)
LEMMA Flattened ==
    ASSUME NEW S, NEW seqs \in Seq(Seq(S))
    PROVE  FlattenSeq(seqs) \in Seq(S)
<1> DEFINE k == Len(seqs)
           Step(f, i) == IF i = 1 THEN seqs[i] ELSE f[i - 1] \o seqs[i]
           Runs(f, m) == f \in [1..m -> Seq(S)] /\ \A i \in 1..m : f[i] = Step(f, i)
           Good == {m \in Nat : m <= k => \E f : Runs(f, m)}
<1>1. k \in Nat /\ \A i \in 1..k : seqs[i] \in Seq(S)
  OBVIOUS
<1>2. 0 \in Good
  <2> DEFINE f == [i \in 1..0 |-> <<>>]
  <2>1. Runs(f, 0)
    OBVIOUS
  <2>2. \E h : Runs(h, 0)
    <3> HIDE DEF f, Runs
    <3> QED BY <2>1
  <2> QED BY <2>2
<1>3. ASSUME NEW m \in Nat, m \in Good PROVE m + 1 \in Good
  <2> SUFFICES ASSUME m + 1 <= k PROVE \E f : Runs(f, m + 1)
    <3>1. m + 1 \in Nat OBVIOUS
    <3> HIDE DEF Runs
    <3> QED BY <3>1
  <2>0. m <= k
    BY <1>1
  <2>1. PICK f : Runs(f, m)
    BY <2>0, <1>3
  <2> DEFINE next == Step(f, m + 1)
             g == [i \in 1..(m + 1) |-> IF i = m + 1 THEN next ELSE f[i]]
  <2>2. next \in Seq(S)
    <3>1. m + 1 \in 1..k /\ seqs[m + 1] \in Seq(S) BY <1>1
    <3>2. m # 0 => m \in 1..m OBVIOUS
    <3>3. m # 0 => f[m] \in Seq(S) BY <2>1, <3>2
    <3> QED BY <3>1, <3>3
  <2>3. g \in [1..(m + 1) -> Seq(S)]
    <3> HIDE DEF next
    <3> QED BY <2>1, <2>2
  <2>4. ASSUME NEW i \in 1..(m + 1) PROVE g[i] = Step(g, i)
    <3>1. CASE i = m + 1
      <4>1. i # 1 => g[i - 1] = f[m]
        BY <3>1
      <4> QED BY <3>1, <4>1
    <3>2. CASE i # m + 1
      <4>0. i \in 1..m BY <3>2
      <4>1. i \in 1..m /\ f[i] = Step(f, i)
        <5> HIDE DEF Step
        <5> QED BY <2>1, <4>0
      <4>2. i # 1 => i - 1 \in 1..m BY <4>1
      <4>3. g[i] = f[i] /\ (i # 1 => g[i - 1] = f[i - 1])
        BY <3>2, <4>1, <4>2
      <4> QED BY <4>1, <4>3
    <3> QED BY <3>1, <3>2
  <2>5. Runs(g, m + 1)
    BY <2>3, <2>4
  <2> HIDE DEF g, Runs
  <2> QED BY <2>5
<1>4. k \in Good
  <2> HIDE DEF Good
  <2> QED BY <1>1, <1>2, <1>3, Counting
<1> DEFINE flatten == CHOOSE f : f = [i \in 1..k |-> Step(f, i)]
<1>5. flatten = [i \in 1..k |-> Step(flatten, i)]
  <2>1. PICK f : Runs(f, k)
    BY <1>1, <1>4
  <2>2. f = [i \in 1..k |-> Step(f, i)]
    BY <2>1
  <2> QED BY <2>2
<1>6. \A i \in 1..k : flatten[i] \in Seq(S)
  <2> DEFINE Fine == {m \in Nat : m \in 1..k => flatten[m] \in Seq(S)}
  <2> HIDE DEF flatten
  <2>1. 0 \in Fine OBVIOUS
  <2>2. ASSUME NEW m \in Nat, m \in Fine PROVE m + 1 \in Fine
    <3> SUFFICES ASSUME m + 1 \in 1..k PROVE flatten[m + 1] \in Seq(S)
      OBVIOUS
    <3>1. flatten[m + 1] = Step(flatten, m + 1)
      BY <1>5
    <3>2. m # 0 => flatten[m] \in Seq(S)
      BY <2>2, <1>1
    <3> QED BY <3>1, <3>2, <1>1
  <2>3. Nat \subseteq Fine
    <3> HIDE DEF Fine
    <3> QED BY <2>1, <2>2, Counting
  <2> QED BY <2>3
<1>7. k # 0 => FlattenSeq(seqs) = flatten[k]
  BY DEF FlattenSeq
<1>8. k = 0 => FlattenSeq(seqs) = <<>>
  BY DEF FlattenSeq
<1> HIDE DEF flatten
<1> QED
  BY <1>1, <1>6, <1>7, <1>8

-----------------------------------------------------------------------------
(* What a delta supersedes: from the items `old' of the plan it is applied to,  *)
(* to the ones of revision rev, whose author had read revision r.             *)

ItemFields == {"id", "text", "deps", "kind", "snapshot", "since", "until"}
IsItem(i, r) == DOMAIN i = ItemFields /\ i.since \in 1..r /\ i.until \in {0} \cup (i.since..r)
AreItems(items, r) == IsFiniteSet(items) /\ \A i \in items : IsItem(i, r)

(* Why an item may have been superseded by somebody who had read revision r. *)
Excused(i, items, r) ==
    \/ i.since <= r
    \/ \E cause \in items : cause.until = i.until /\ RestsOn(i, cause)
    \/ i.since = i.until
    \/ \E again \in items :
          Keyed(again) = Keyed(i) /\ again.since = i.until /\ MadeUp(again, r)

(* No item is lost or altered but by its end, no old one ends without excuse. *)
Evolves(old, items, rev, r) ==
    /\ AreItems(items, rev)
    /\ \A i \in old : i \in items \/ (IsActive(i) /\ [i EXCEPT !.until = rev] \in items)
    /\ \A i \in items : i \in old \/ i.since = rev \/ (i.until = rev /\ Excused(i, items, r))

(* An item that ends keeps everything else. *)
LEMMA Retired ==
    ASSUME NEW rev \in Nat \ {0}, NEW i, IsItem(i, rev), NEW r
    PROVE  /\ IsItem([i EXCEPT !.until = rev], rev)
           /\ [i EXCEPT !.until = rev].until = rev /\ [i EXCEPT !.until = rev].since = i.since
           /\ [i EXCEPT !.until = rev].id = i.id /\ [i EXCEPT !.until = rev].deps = i.deps
           /\ Keyed([i EXCEPT !.until = rev]) = Keyed(i)
           /\ MadeUp(i, r) => MadeUp([i EXCEPT !.until = rev], r)
<1> DEFINE j == [i EXCEPT !.until = rev]
<1>1. /\ DOMAIN j = ItemFields /\ j.until = rev /\ j.since = i.since
      /\ j.id = i.id /\ j.deps = i.deps /\ j.kind = i.kind /\ j.text = i.text
  BY DEF IsItem, ItemFields
<1> HIDE DEF j
<1>2. IsItem(j, rev) /\ Keyed(j) = Keyed(i)
  BY <1>1 DEF IsItem, Keyed
<1>3. MadeUp(i, r) => MadeUp(j, r)
  BY <1>1 DEF MadeUp
<1> QED
  BY <1>1, <1>2, <1>3 DEF j

(* Items end for an excuse that is among what ends or what is new. *)
LEMMA RetireEvolves ==
    ASSUME NEW old, NEW items, NEW rev \in Nat \ {0}, NEW r,
           Evolves(old, items, rev, r),
           NEW gone \in SUBSET Active(items),
           NEW fresh, AreItems(fresh, rev), \A i \in fresh : i.since = rev,
           \A g \in gone :
              \/ g.since = rev \/ g.since <= r
              \/ \E cause \in gone : RestsOn(g, cause)
              \/ \E again \in fresh : Keyed(again) = Keyed(g) /\ MadeUp(again, r)
    PROVE  Evolves(old, Retire(items, gone, rev) \cup fresh, rev, r)
<1> DEFINE new == Retire(items, gone, rev) \cup fresh
           Late(i) == [i EXCEPT !.until = rev]
<1>1. /\ \A i \in items \ gone : i \in new
      /\ \A i \in gone : i \in items /\ Late(i) \in new
      /\ \A i \in new : i \in items \ gone \/ i \in fresh \/ \E g \in gone : i = Late(g)
  BY DEF Retire, Active
<1>2. \A i \in items : IsItem(i, rev)
  BY DEF Evolves, AreItems
<1>3. \A i \in gone : i.until = 0
  BY DEF Active, IsActive
<1>4. IsFiniteSet(new)
  <2>1. IsFiniteSet(items) /\ IsFiniteSet(fresh)
    BY DEF Evolves, AreItems
  <2>2. IsFiniteSet(Retire(items, gone, rev))
    <3> DEFINE f == [i \in items |-> IF i \in gone THEN Late(i) ELSE i]
    <3>1. Retire(items, gone, rev) = {f[i] : i \in items}
      BY DEF Retire
    <3>2. {f[i] : i \in items} = Range(f)
      BY DEF Range
    <3>3. f \in Surjection(items, Range(f))
      BY DEF Surjection, Range
    <3> QED
      BY <2>1, <3>1, <3>2, <3>3, FS_Surjection
  <2> QED
    BY <2>1, <2>2, FS_Union
<1>5. \A i \in gone : /\ IsItem(Late(i), rev) /\ Late(i).until = rev /\ Late(i).since = i.since
                      /\ Late(i).id = i.id /\ Late(i).deps = i.deps /\ Keyed(Late(i)) = Keyed(i)
                      /\ MadeUp(i, r) => MadeUp(Late(i), r)
  BY <1>1, <1>2, Retired
<1> HIDE DEF Late
<1>6. AreItems(new, rev)
  BY <1>1, <1>2, <1>4, <1>5 DEF AreItems
<1> HIDE DEF new
<1>7. ASSUME NEW i \in old PROVE i \in new \/ (IsActive(i) /\ Late(i) \in new)
  <2>1. i \in items \/ (IsActive(i) /\ Late(i) \in items)
    BY <1>7 DEF Evolves, Late
  <2>2. CASE i \in items
    BY <1>1, <1>3, <2>2 DEF IsActive
  <2>3. CASE IsActive(i) /\ Late(i) \in items
    <3>1. Late(i).until = rev
      <4>1. DOMAIN Late(i) = ItemFields
        BY <1>2, <2>3 DEF IsItem
      <4> QED BY <4>1 DEF Late, ItemFields
    <3>2. Late(i) \notin gone
      BY <1>3, <3>1
    <3> QED BY <1>1, <2>3, <3>2
  <2> QED BY <2>1, <2>2, <2>3
<1>8. ASSUME NEW i \in new
      PROVE  i \in old \/ i.since = rev \/ (i.until = rev /\ Excused(i, new, r))
  <2>1. CASE i \in fresh
    BY <2>1
  <2>2. CASE i \in items \ gone
    <3>1. SUFFICES ASSUME i.until = rev, Excused(i, items, r) PROVE Excused(i, new, r)
      BY <2>2 DEF Evolves
    <3>2. CASE i.since <= r \/ i.since = i.until
      BY <3>2 DEF Excused
    <3>3. CASE \E cause \in items : cause.until = i.until /\ RestsOn(i, cause)
      <4>1. PICK cause \in items : cause.until = rev /\ RestsOn(i, cause)
        BY <3>1, <3>3
      <4>2. cause \in new
        BY <1>1, <1>3, <4>1
      <4> QED BY <3>1, <4>1, <4>2 DEF Excused
    <3>4. CASE \E again \in items :
                  Keyed(again) = Keyed(i) /\ again.since = i.until /\ MadeUp(again, r)
      <4>1. PICK again \in items :
                  Keyed(again) = Keyed(i) /\ again.since = i.until /\ MadeUp(again, r)
        BY <3>4
      <4>2. again \in gone =>
              /\ Late(again) \in new /\ Keyed(Late(again)) = Keyed(i)
              /\ Late(again).since = i.until /\ MadeUp(Late(again), r)
        BY <1>1, <1>5, <4>1
      <4>3. again \notin gone => again \in new
        BY <1>1, <4>1
      <4> QED BY <4>1, <4>2, <4>3 DEF Excused
    <3> QED BY <3>1, <3>2, <3>3, <3>4 DEF Excused
  <2>3. ASSUME NEW g \in gone, i = Late(g) PROVE i.since = rev \/ (i.until = rev /\ Excused(i, new, r))
    <3>1. /\ i.until = rev /\ i.since = g.since /\ i.id = g.id /\ i.deps = g.deps
          /\ Keyed(i) = Keyed(g)
      BY <1>5, <2>3
    <3>2. CASE g.since = rev \/ g.since <= r
      BY <3>1, <3>2 DEF Excused
    <3>3. CASE \E cause \in gone : RestsOn(g, cause)
      <4>1. PICK cause \in gone : RestsOn(g, cause)
        BY <3>3
      <4>2. Late(cause) \in new /\ Late(cause).until = i.until /\ RestsOn(i, Late(cause))
        BY <1>1, <1>5, <3>1, <4>1 DEF RestsOn
      <4> QED BY <3>1, <4>2 DEF Excused
    <3>4. CASE \E again \in fresh : Keyed(again) = Keyed(g) /\ MadeUp(again, r)
      <4>1. PICK again \in fresh : Keyed(again) = Keyed(g) /\ MadeUp(again, r)
        BY <3>4
      <4>2. again \in new /\ again.since = i.until
        BY <3>1 DEF new
      <4> QED BY <3>1, <4>1, <4>2 DEF Excused
    <3> QED BY <3>2, <3>3, <3>4
  <2> QED BY <1>1, <2>1, <2>2, <2>3
<1> QED
  BY <1>6, <1>7, <1>8 DEF Evolves, new, Late

\* The key was not touched since revision r, or the operation makes up an identifier.
SeenUnder(old, key, r) == \A i \in ActiveUnder(old, key) : i.since <= r
Fits(op, old, r) ==
    /\ op.op \in Operations
    /\ op.op = "upsert" => SeenUnder(old, Key(op), r) \/ MadeUp(op, r)
    /\ op.op = "supersede" => SeenUnder(old, Key(op), r)

(* What is active under such a key was read, or is of this same delta. *)
LEMMA SeenRoots ==
    ASSUME NEW old, NEW items, NEW rev \in Nat \ {0}, NEW r, Evolves(old, items, rev, r),
           NEW key, SeenUnder(old, key, r), NEW i \in ActiveUnder(items, key)
    PROVE  i.since = rev \/ i.since <= r
<1>1. i \in items /\ i.until = 0 /\ Keyed(i) = key
  BY DEF ActiveUnder, Active, IsActive
<1>2. i \in old \/ i.since = rev
  BY <1>1 DEF Evolves
<1>3. i \in old => i \in ActiveUnder(old, key)
  BY <1>1 DEF ActiveUnder, Active, IsActive
<1> QED
  BY <1>2, <1>3 DEF SeenUnder

(* Each operation supersedes only with an excuse. *)
LEMMA UpsertEvolves ==
    ASSUME NEW old, NEW items, NEW rev \in Nat \ {0}, NEW r, Evolves(old, items, rev, r),
           NEW op, op.op = "upsert", Fits(op, old, r)
    PROVE  Evolves(old, UpsertKnowledge(items, op, rev), rev, r)
<1> DEFINE gone == ActiveUnder(items, Key(op))
           fresh == [id |-> op.id, text |-> op.text, deps |-> op.deps, kind |-> op.kind,
                     snapshot |-> op.snapshot, since |-> rev, until |-> 0]
<1>1. UpsertKnowledge(items, op, rev) = items
         \/ UpsertKnowledge(items, op, rev) = Retire(items, gone, rev) \cup {fresh}
  BY DEF UpsertKnowledge
<1>2. /\ IsItem(fresh, rev) /\ fresh.since = rev
      /\ Keyed(fresh) = Key(op) /\ (MadeUp(op, r) => MadeUp(fresh, r))
  BY DEF IsItem, ItemFields, Keyed, Key, MadeUp
<1>3. AreItems({fresh}, rev)
  <2> HIDE DEF fresh
  <2> QED BY <1>2, FS_Singleton DEF AreItems
<1> HIDE DEF fresh
<1>4. gone \subseteq Active(items) /\ \A g \in gone : Keyed(g) = Key(op)
  BY DEF ActiveUnder
<1>5. SeenUnder(old, Key(op), r) => \A g \in gone : g.since = rev \/ g.since <= r
  BY SeenRoots
<1>6. Evolves(old, Retire(items, gone, rev) \cup {fresh}, rev, r)
  <2>1. \A g \in gone : \/ g.since = rev \/ g.since <= r
                        \/ \E again \in {fresh} : Keyed(again) = Keyed(g) /\ MadeUp(again, r)
    BY <1>2, <1>4, <1>5 DEF Fits
  <2>2. gone \in SUBSET Active(items) /\ \A i \in {fresh} : i.since = rev
    BY <1>2, <1>4
  <2> HIDE DEF gone
  <2> QED BY <1>3, <2>1, <2>2, RetireEvolves
<1> QED
  BY <1>1, <1>6

(* What falls is what the operation names, or rests on something that falls. *)
LEMMA FallsWithCause ==
    ASSUME NEW items, NEW key, NEW i \in Fallen(items, key)
    PROVE  i \in ActiveUnder(items, key) \/ \E cause \in Fallen(items, key) : RestsOn(i, cause)
<1> SUFFICES ASSUME i \notin ActiveUnder(items, key),
                    \A cause \in Fallen(items, key) : ~RestsOn(i, cause)
             PROVE  FALSE
  OBVIOUS
<1> DEFINE rest == Fallen(items, key) \ {i}
<1>1. ActiveUnder(items, key) \subseteq Fallen(items, key)
  BY DEF Fallen, ClosedUnder, ActiveUnder
<1>2. \A j \in Active(items) :
         (\E cause \in Fallen(items, key) : RestsOn(j, cause)) => j \in Fallen(items, key)
  BY DEF Fallen, ClosedUnder
<1>3. rest \in SUBSET Active(items)
  BY DEF Fallen
<1>4. ClosedUnder(items, key, rest)
  BY <1>1, <1>2 DEF ClosedUnder
<1> QED
  BY <1>3, <1>4 DEF Fallen

LEMMA SupersedeEvolves ==
    ASSUME NEW old, NEW items, NEW rev \in Nat \ {0}, NEW r, Evolves(old, items, rev, r),
           NEW op, op.op = "supersede", Fits(op, old, r)
    PROVE  Evolves(old, SupersedeKnowledge(items, op, rev), rev, r)
<1> PICK gone : gone = Fallen(items, Key(op))
  OBVIOUS
<1>1. gone \in SUBSET Active(items)
  BY DEF Fallen
<1>2. \A g \in gone : \/ g.since = rev \/ g.since <= r
                      \/ \E cause \in gone : RestsOn(g, cause)
  BY FallsWithCause, SeenRoots DEF Fits
<1>3. AreItems({}, rev)
  BY FS_EmptySet DEF AreItems
<1>4. Evolves(old, Retire(items, gone, rev) \cup {}, rev, r)
  BY <1>1, <1>2, <1>3, RetireEvolves
<1> QED
  BY <1>4 DEF SupersedeKnowledge

(* The draft that the operations of a delta build up. *)
Begun(plan) ==
    [ok |-> TRUE, revision |-> plan.revision + 1, items |-> plan.items,
     probe |-> plan.probe, split |-> plan.split]
IsDraft(built, old, rev, r) ==
    /\ DOMAIN built = {"ok", "revision", "items", "probe", "split"}
    /\ built.revision = rev /\ Evolves(old, built.items, rev, r)

LEMMA OperationEvolves ==
    ASSUME NEW old, NEW rev \in Nat \ {0}, NEW r, NEW built, IsDraft(built, old, rev, r),
           NEW op, Fits(op, old, r)
    PROVE  IsDraft(ApplyOperation(built, op), old, rev, r)
<1> DEFINE next == ApplyOperation(built, op)
<1>1. CASE op.op = "upsert"
  <2>1. next = [built EXCEPT !.items = UpsertKnowledge(built.items, op, rev)]
    BY <1>1 DEF ApplyOperation, IsDraft
  <2>2. Evolves(old, UpsertKnowledge(built.items, op, rev), rev, r)
    BY <1>1, UpsertEvolves DEF IsDraft
  <2> QED BY <2>1, <2>2 DEF IsDraft
<1>2. CASE op.op = "supersede"
  <2>1. next = [built EXCEPT !.ok = built.ok /\ ActiveUnder(built.items, Key(op)) # {},
                             !.items = SupersedeKnowledge(built.items, op, rev)]
    BY <1>2 DEF ApplyOperation, IsDraft
  <2>2. Evolves(old, SupersedeKnowledge(built.items, op, rev), rev, r)
    BY <1>2, SupersedeEvolves DEF IsDraft
  <2> QED BY <2>1, <2>2 DEF IsDraft
<1>3. CASE op.op = "probe"
  <2>1. next = [built EXCEPT !.probe = op.snapshot]
    BY <1>3 DEF ApplyOperation
  <2> QED BY <2>1 DEF IsDraft
<1>4. CASE op.op = "split"
  <2>1. next = [built EXCEPT !.split = op.value]
    BY <1>4 DEF ApplyOperation
  <2> QED BY <2>1 DEF IsDraft
<1> QED
  BY <1>1, <1>2, <1>3, <1>4 DEF Fits, Operations

(* AfterDelta is the last of the drafts that its operations run through. *)
LEMMA Drafted ==
    ASSUME NEW plan, NEW ops, Len(ops) \in Nat
    PROVE  \E built : /\ built[0] = Begun(plan)
                      /\ \A n \in 1..Len(ops) : built[n] = ApplyOperation(built[n - 1], ops[n])
                      /\ AfterDelta(plan, ops) = built[Len(ops)]
<1> DEFINE Step(f, n) == IF n = 0 THEN Begun(plan) ELSE ApplyOperation(f[n - 1], ops[n])
           Runs(f, m) == f = [n \in 0..m |-> Step(f, n)]
           Good == {m \in Nat : \E f : Runs(f, m)}
<1>1. 0 \in Good
  <2> DEFINE f == [n \in 0..0 |-> Begun(plan)]
  <2>1. Runs(f, 0)
    OBVIOUS
  <2>2. \E h : Runs(h, 0)
    <3> HIDE DEF f, Runs
    <3> QED BY <2>1
  <2> QED BY <2>2
<1>2. ASSUME NEW m \in Nat, m \in Good PROVE m + 1 \in Good
  <2>1. PICK f : Runs(f, m)
    BY <1>2
  <2> DEFINE next == Step(f, m + 1)
             g == [n \in 0..(m + 1) |-> IF n = m + 1 THEN next ELSE f[n]]
  <2>2. ASSUME NEW n \in 0..(m + 1) PROVE g[n] = Step(g, n)
    <3>1. CASE n = m + 1
      <4>1. n - 1 = m /\ m \in 0..(m + 1) /\ m # m + 1 BY <3>1
      <4>2. g[m] = f[m] BY <4>1
      <4> QED BY <3>1, <4>1, <4>2
    <3>2. CASE n # m + 1
      <4>1. n \in 0..m /\ (n # 0 => n - 1 \in 0..m) BY <3>2
      <4>2. f[n] = Step(f, n)
        <5> HIDE DEF Step
        <5> QED BY <2>1, <4>1
      <4>3. g[n] = f[n] /\ (n # 0 => g[n - 1] = f[n - 1])
        BY <3>2, <4>1
      <4> QED BY <4>2, <4>3
    <3> QED BY <3>1, <3>2
  <2>3. Runs(g, m + 1)
    <3> HIDE DEF Step
    <3> QED BY <2>2
  <2>4. \E h : Runs(h, m + 1)
    <3> HIDE DEF g, Runs
    <3> QED BY <2>3
  <2> QED BY <2>4
<1>3. Len(ops) \in Good
  <2> HIDE DEF Good
  <2> QED BY <1>1, <1>2, Counting
<1> DEFINE built == CHOOSE f : f = [n \in 0..Len(ops) |-> Step(f, n)]
<1>4. built = [n \in 0..Len(ops) |-> Step(built, n)]
  BY <1>3
<1>5. AfterDelta(plan, ops) = built[Len(ops)]
  BY DEF AfterDelta, Begun
<1> HIDE DEF built
<1>6. built[0] = Begun(plan)
  BY <1>4
<1>7. \A n \in 1..Len(ops) : built[n] = ApplyOperation(built[n - 1], ops[n])
  BY <1>4
<1> QED
  BY <1>5, <1>6, <1>7

(* By induction over the operations, so does the whole delta. *)
LEMMA DeltaEvolves ==
    ASSUME NEW plan, plan.revision \in Nat, AreItems(plan.items, plan.revision),
           NEW ops, Len(ops) \in Nat, NEW r, \A n \in 1..Len(ops) : Fits(ops[n], plan.items, r)
    PROVE  Evolves(plan.items, AfterDelta(plan, ops).items, plan.revision + 1, r)
<1> PICK built : /\ built[0] = Begun(plan)
                 /\ \A n \in 1..Len(ops) : built[n] = ApplyOperation(built[n - 1], ops[n])
                 /\ AfterDelta(plan, ops) = built[Len(ops)]
  BY Drafted
<1> PICK rev : rev = plan.revision + 1
  OBVIOUS
<1> DEFINE Good == {n \in Nat : n <= Len(ops) => IsDraft(built[n], plan.items, rev, r)}
<1>1. 0 \in Good
  <2>1. AreItems(plan.items, rev)
    BY DEF AreItems, IsItem
  <2>2. Evolves(plan.items, plan.items, rev, r)
    BY <2>1 DEF Evolves
  <2>3. IsDraft(Begun(plan), plan.items, rev, r)
    BY <2>2 DEF IsDraft, Begun
  <2> QED BY <2>3
<1>2. ASSUME NEW n \in Nat, n \in Good PROVE n + 1 \in Good
  <2> SUFFICES ASSUME n + 1 <= Len(ops) PROVE IsDraft(built[n + 1], plan.items, rev, r)
    OBVIOUS
  <2>1. n + 1 \in 1..Len(ops) /\ (n + 1) - 1 = n /\ n <= Len(ops)
    OBVIOUS
  <2>2. IsDraft(built[n], plan.items, rev, r) /\ built[n + 1] = ApplyOperation(built[n], ops[n + 1])
    BY <1>2, <2>1
  <2> QED BY <2>1, <2>2, OperationEvolves
<1>3. Len(ops) \in Good
  <2> HIDE DEF Good
  <2> QED BY <1>1, <1>2, Counting
<1> QED
  BY <1>3 DEF IsDraft

\* An operation as the contract of a delta has it.
IsOperation(op) ==
    /\ op.op \in Operations
    /\ op.op = "upsert" => /\ DOMAIN op = {"op", "id", "text", "deps", "kind", "snapshot"}
                           /\ IsSequence(op.id) /\ op.id # <<>>

(* Every contribution is a sequence of such operations, a refresh too. *)
LEMMA ContributionOps ==
    ASSUME NEW plan, IsFiniteSet(plan.items), NEW ops \in Contributions(plan)
    PROVE  IsSequence(ops) /\ ops # <<>> /\ \A n \in 1..Len(ops) : IsOperation(ops[n])
<1>1. CASE ops \in Deltas
  <2>1. IsSequence(ops) /\ ops # <<>> /\ \A op \in Range(ops) : IsOperation(op)
    BY <1>1, DeltasAssumption DEF IsOperation
  <2> QED BY <2>1 DEF IsSequence, Range
<1>2. ASSUME NEW i \in Active(plan.items), ops = <<Withdraw(i)>>
      PROVE  IsSequence(ops) /\ ops # <<>> /\ \A n \in 1..Len(ops) : IsOperation(ops[n])
  <2>1. IsOperation(Withdraw(i))
    BY DEF IsOperation, Withdraw, Operations
  <2>2. Len(ops) = 1 /\ ops[1] = Withdraw(i) /\ ops \in Seq({Withdraw(i)})
    BY <1>2
  <2>3. ops \in Seq(Range(ops)) /\ ops # <<>>
    BY <2>2 DEF Range
  <2> QED BY <2>1, <2>2, <2>3 DEF IsSequence
<1>3. ASSUME NEW s \in Snapshots, ops \in RefreshesOf(plan, s)
      PROVE  IsSequence(ops) /\ ops # <<>> /\ \A n \in 1..Len(ops) : IsOperation(ops[n])
  <2> DEFINE old == {i \in Active(plan.items) : i.kind = "fact"}
             probe == [op |-> "probe", snapshot |-> s]
  <2>1. PICK facts \in SetToSeqs(old) : ops = <<probe>> \o [n \in DOMAIN facts |-> Withdraw(facts[n])]
    BY <1>3 DEF RefreshesOf
  <2>2. old \in SUBSET plan.items
    BY DEF Active
  <2>3. Cardinality(old) \in Nat
    <3> HIDE DEF old
    <3> QED BY <2>2, FS_Subset, FS_CardinalityType
  <2> DEFINE k == Cardinality(old)
             S == {op \in {probe} \cup {Withdraw(i) : i \in old} : IsOperation(op)}
             rest == [n \in DOMAIN facts |-> Withdraw(facts[n])]
  <2>4. facts \in [1..k -> old]
    BY <2>1 DEF SetToSeqs
  <2>5. \A i \in old : Withdraw(i) \in S
    BY DEF IsOperation, Withdraw, Operations
  <2>6. rest \in Seq(S)
    <3>1. rest = [n \in 1..k |-> Withdraw(facts[n])] /\ \A n \in 1..k : Withdraw(facts[n]) \in S
      <4> HIDE DEF k, S, old
      <4> QED BY <2>4, <2>5
    <3> HIDE DEF k, S, rest
    <3> QED BY <2>3, <3>1 DEF k
  <2>7. probe \in S
    BY DEF IsOperation, Operations
  <2> HIDE DEF S, rest, probe
  <2>8. ops \in Seq(S) /\ ops # <<>>
    BY <2>1, <2>6, <2>7 DEF rest
  <2>9. IsSequence(ops) /\ \A n \in 1..Len(ops) : ops[n] \in S
    BY <2>8 DEF IsSequence, Range
  <2> QED BY <2>8, <2>9 DEF S
<1> QED
  BY <1>1, <1>2, <1>3 DEF Contributions, OperationsOn

(* Rebasing leaves operations on keys nobody touched, and made-up identifiers. *)
LEMMA RebasedFits ==
    ASSUME NEW base, NEW current, NEW ops, IsSequence(ops),
           \A n \in 1..Len(ops) : IsOperation(ops[n]),
           base.revision \in Nat, \A i \in base.items : i.since <= base.revision,
           CanRebase(base, current, ops)
    PROVE  LET rebased == Rebased(base, current, ops) IN
           /\ Len(rebased) \in Nat
           /\ \A n \in 1..Len(rebased) : Fits(rebased[n], current.items, base.revision)
<1> DEFINE r == base.revision
           overlap == Overlap(base, current, ops)
           Kept(n) == IF Key(ops[n]) \in overlap
                      THEN <<Alternative(ops[n], r), Contradiction(ops[n], r)>>
                      ELSE <<ops[n]>>
           all == UNION {Range(Kept(n)) : n \in DOMAIN ops}
           S == {op \in all : Fits(op, current.items, r)}
<1>1. DOMAIN ops = 1..Len(ops) /\ Len(ops) \in Nat
  BY DEF IsSequence
<1>2. ASSUME NEW n \in DOMAIN ops PROVE Kept(n) \in Seq(S)
  <2>1. IsOperation(ops[n])
    BY <1>1
  <2>2. CASE Key(ops[n]) \in overlap
    <3>1. ops[n].op = "upsert"
      BY <2>2 DEF CanRebase
    <3> DEFINE a == Alternative(ops[n], r)
               c == Contradiction(ops[n], r)
               id == ops[n].id
    <3> PICK kind : kind = ops[n].kind
      OBVIOUS
    <3>2. IsSequence(id) /\ id # <<>> /\ DOMAIN ops[n] = {"op", "id", "text", "deps", "kind", "snapshot"}
      BY <2>1, <3>1 DEF IsOperation
    <3>3. a.op = "upsert" /\ a.id = id \o <<kind, r, ops[n].text>> /\ a.text = ops[n].text
      BY <3>1, <3>2 DEF Alternative
    <3>4. /\ c.op = "upsert" /\ c.id = id \o <<kind, r, ops[n].text, "contradiction">>
          /\ c.text = "confront"
      BY DEF Contradiction
    <3> PICK text : text = ops[n].text
      OBVIOUS
    <3> DEFINE X == Range(id) \cup {kind, r, text, "contradiction"}
    <3>5. id \in Seq(X) /\ Len(id) \in Nat \ {0}
      BY <3>2 DEF IsSequence
    <3>6. <<kind, r, text>> \in Seq(X) /\ <<kind, r, text, "contradiction">> \in Seq(X)
      OBVIOUS
    <3> HIDE DEF a, c, id, X, r
    <3>7. MadeUp(a, r)
      <4>1. /\ Len(a.id) = Len(id) + 3 /\ a.id[Len(id) + 3] = text /\ a.id[Len(id) + 2] = r
        BY <3>3, <3>5, <3>6
      <4> QED BY <3>3, <3>5, <4>1 DEF MadeUp
    <3>8. MadeUp(c, r)
      <4>1. /\ Len(c.id) = Len(id) + 4 /\ c.id[Len(id) + 4] = "contradiction"
            /\ c.id[Len(id) + 2] = r
        BY <3>4, <3>5, <3>6
      <4> QED BY <3>4, <3>5, <4>1 DEF MadeUp
    <3>9. Fits(a, current.items, r) /\ Fits(c, current.items, r)
      BY <3>3, <3>4, <3>7, <3>8 DEF Fits, Operations
    <3>10. Kept(n) = <<a, c>> /\ a \in Range(Kept(n)) /\ c \in Range(Kept(n))
      BY <2>2 DEF a, c, Range
    <3>11. a \in S /\ c \in S
      <4> HIDE DEF Kept
      <4> QED BY <3>9, <3>10
    <3> HIDE DEF Kept, S
    <3> QED BY <3>10, <3>11
  <2>3. CASE Key(ops[n]) \notin overlap
    <3>1. Key(ops[n]) \notin ChangedKeys(base, current)
      BY <2>3 DEF Overlap
    <3>2. SeenUnder(current.items, Key(ops[n]), r)
      <4> SUFFICES ASSUME NEW i \in ActiveUnder(current.items, Key(ops[n])) PROVE i.since <= r
        BY DEF SeenUnder
      <4>1. i \in current.items /\ Keyed(i) = Key(ops[n])
        BY DEF ActiveUnder, Active
      <4>2. ItemsUnder(base, Key(ops[n])) = ItemsUnder(current, Key(ops[n]))
        BY <3>1, <4>1 DEF ChangedKeys
      <4>3. i \in base.items
        BY <4>1, <4>2 DEF ItemsUnder
      <4> QED BY <4>3
    <3>3. Fits(ops[n], current.items, r)
      BY <2>1, <3>2 DEF Fits, IsOperation
    <3>4. Kept(n) = <<ops[n]>> /\ ops[n] \in Range(Kept(n))
      BY <2>3 DEF Range
    <3>5. ops[n] \in S
      <4> HIDE DEF Kept
      <4> QED BY <3>3, <3>4
    <3> HIDE DEF Kept, S
    <3> QED BY <3>4, <3>5
  <2> QED BY <2>2, <2>3
<1> DEFINE kept == [n \in DOMAIN ops |-> Kept(n)]
<1>3. kept \in Seq(Seq(S))
  <2> HIDE DEF Kept, S
  <2> QED BY <1>1, <1>2
<1>4. Rebased(base, current, ops) = FlattenSeq(kept)
  BY DEF Rebased, Confronted
<1>5. Rebased(base, current, ops) \in Seq(S)
  <2> HIDE DEF kept, S
  <2> QED BY <1>3, <1>4, Flattened
<1>6. \A op \in S : Fits(op, current.items, r)
  OBVIOUS
<1> HIDE DEF S
<1> QED
  BY <1>5, <1>6

(* What a delta written on one plan makes of another one. *)
LEMMA MergedEvolves ==
    ASSUME NEW base, NEW current, NEW ops \in Contributions(base),
           base.revision \in Nat, AreItems(base.items, base.revision),
           current.revision \in Nat, AreItems(current.items, current.revision),
           DOMAIN current = Fields,
           NEW plan \in Merged(base, current, ops)
    PROVE  Evolves(current.items, plan.items, current.revision + 1, base.revision)
<1>1. IsSequence(ops) /\ \A n \in 1..Len(ops) : IsOperation(ops[n])
  BY ContributionOps DEF AreItems
<1> DEFINE rebased == IF base = current THEN ops ELSE Rebased(base, current, ops)
<1>2. plan = AppliedDelta(current, rebased) /\ (base # current => CanRebase(base, current, ops))
  BY DEF Merged
<1>3. Len(rebased) \in Nat /\ \A n \in 1..Len(rebased) : Fits(rebased[n], current.items, base.revision)
  <2>1. CASE base = current
    <3>1. Len(ops) \in Nat
      BY <1>1 DEF IsSequence
    <3>2. \A key : SeenUnder(current.items, key, base.revision)
      BY <2>1 DEF SeenUnder, ActiveUnder, Active, AreItems, IsItem
    <3>3. \A n \in 1..Len(ops) : Fits(ops[n], current.items, base.revision)
      BY <1>1, <3>2 DEF Fits, IsOperation
    <3> QED BY <2>1, <3>1, <3>3
  <2>2. CASE base # current
    <3>1. \A i \in base.items : i.since <= base.revision
      BY DEF AreItems, IsItem
    <3> QED BY <1>1, <1>2, <2>2, <3>1, RebasedFits
  <2> QED BY <2>1, <2>2
<1>4. plan.items = AfterDelta(current, rebased).items
  BY <1>2 DEF AppliedDelta, Fields
<1> HIDE DEF rebased
<1> QED
  BY <1>3, <1>4, DeltaEvolves

-----------------------------------------------------------------------------
(* What was superseded keeps its excuse in whatever revision comes next. *)
LEMMA ExcusedStays ==
    ASSUME NEW old, NEW items, NEW rev \in Nat \ {0}, NEW r, Evolves(old, items, rev, r),
           \A i \in old : IsItem(i, rev), NEW i \in old, i.until # 0, NEW s, Excused(i, old, s)
    PROVE  Excused(i, items, s)
<1>1. CASE i.since <= s \/ i.since = i.until
  BY <1>1 DEF Excused
<1>2. CASE \E cause \in old : cause.until = i.until /\ RestsOn(i, cause)
  <2>1. PICK cause \in old : cause.until = i.until /\ RestsOn(i, cause)
    BY <1>2
  <2>2. cause \in items
    BY <2>1 DEF Evolves, IsActive
  <2> QED BY <2>1, <2>2 DEF Excused
<1>3. CASE \E again \in old : Keyed(again) = Keyed(i) /\ again.since = i.until /\ MadeUp(again, s)
  <2>1. PICK again \in old : Keyed(again) = Keyed(i) /\ again.since = i.until /\ MadeUp(again, s)
    BY <1>3
  <2> PICK late : late = [again EXCEPT !.until = rev]
    OBVIOUS
  <2>2. late.since = again.since /\ Keyed(late) = Keyed(again) /\ MadeUp(late, s)
    BY <2>1, Retired
  <2>3. again \in items \/ late \in items
    BY <2>1 DEF Evolves
  <2> QED BY <2>1, <2>2, <2>3 DEF Excused
<1> QED
  BY <1>1, <1>2, <1>3 DEF Excused

-----------------------------------------------------------------------------
(* The statements of every revision, and where a plan that is not saved yet   *)
(* has its own from.                                                          *)
Worded == \A n \in DOMAIN history : AreItems(history[n].items, n)

Authored(p) ==
    Carries(p) =>
        /\ proc[p].read = 0 => proc[p].next.items = {}
        /\ proc[p].read # 0 /\ proc[p].ops = <<>> =>
              proc[p].next.items = history[proc[p].read].items
        /\ proc[p].read # 0 /\ proc[p].ops # <<>> =>
              proc[p].next \in Merged(history[proc[p].base], history[proc[p].read], proc[p].ops)

Attribution == Worded /\ NothingUnseenIsSuperseded /\ \A p \in Actors : Authored(p)

(* A process that stands still keeps its sources. *)
LEMMA AuthoredStays ==
    ASSUME IInv, Grows, NEW p \in Actors, Authored(p), Carries(p)' => Carries(p),
           proc'[p].ops = proc[p].ops, proc'[p].base = proc[p].base,
           proc'[p].read = proc[p].read, proc'[p].next = proc[p].next
    PROVE  Authored(p)'
<1>1. SUFFICES ASSUME Carries(p)
      PROVE  /\ proc[p].read # 0 /\ proc[p].ops = <<>> =>
                   proc[p].next.items = history'[proc[p].read].items
             /\ proc[p].read # 0 /\ proc[p].ops # <<>> =>
                   proc[p].next \in Merged(history'[proc[p].base], history'[proc[p].read], proc[p].ops)
  BY DEF Authored
<1>2. proc[p].read # 0 => proc[p].read \in DOMAIN history
  BY <1>1 DEF IInv, Ready, Shape, IsSequence
<1>3. proc[p].read # 0 => history'[proc[p].read] = history[proc[p].read]
  BY <1>2 DEF Grows
<1>4. proc[p].ops # <<>> => proc[p].base \in DOMAIN history
  BY DEF IInv, Written
<1>5. proc[p].ops # <<>> => history'[proc[p].base] = history[proc[p].base]
  BY <1>4 DEF Grows
<1> QED
  BY <1>1, <1>3, <1>5 DEF Authored

(* A step of p that saves nothing. *)
LEMMA OnlyAuthors ==
    ASSUME IInv, Attribution, UNCHANGED <<history, basis>>, NEW p \in Actors, Steps(p), Authored(p)'
    PROVE  Attribution'
<1>1. \A q \in Actors \ {p} : Authored(q)'
  BY DEF Attribution, Authored, Carries, Steps
<1>2. Worded' /\ NothingUnseenIsSuperseded'
  BY DEF Attribution, Worded, NothingUnseenIsSuperseded, Latest, Seen, FellWith, Reworded, Recontributed
<1> QED
  BY <1>1, <1>2 DEF Attribution

(* One that goes on to another place with what it carries, or rests. *)
LEMMA WalksOn ==
    ASSUME IInv, Attribution, UNCHANGED <<history, basis>>, NEW p \in Actors,
           \/ Rest(p)
           \/ \E place \in Places :
                 /\ proc' = [proc EXCEPT ![p].at = place]
                 /\ place \in {"save", "plan", "list", "import"} => Carries(p)
    PROVE  Attribution'
<1>1. CASE Rest(p)
  <2>1. Steps(p) /\ proc'[p].next = <<>> /\ proc'[p].at = "idle"
    BY <1>1, Rests DEF IInv, Resting
  <2>2. Authored(p)'
    BY <2>1 DEF Authored, Carries
  <2> QED BY <2>1, <2>2, OnlyAuthors
<1>2. ASSUME NEW place \in Places, proc' = [proc EXCEPT ![p].at = place],
             place \in {"save", "plan", "list", "import"} => Carries(p)
      PROVE  Attribution'
  <2>1. /\ Steps(p) /\ proc'[p].at = place
        /\ proc'[p].ops = proc[p].ops /\ proc'[p].base = proc[p].base
        /\ proc'[p].read = proc[p].read /\ proc'[p].next = proc[p].next
    BY <1>2, GoesTo DEF IInv
  <2>2. Carries(p)' => Carries(p)
    BY <1>2, <2>1 DEF Carries
  <2>3. Authored(p)'
    BY <2>1, <2>2 DEF Attribution, Authored, Carries
  <2> QED BY <2>1, <2>3, OnlyAuthors
<1> QED
  BY <1>1, <1>2

-----------------------------------------------------------------------------
(* Computing a plan keeps track of where its statements are from. *)
LEMMA EnterAuthors ==
    ASSUME IInv, Attribution, NEW p \in Proc, Enter(p) PROVE Attribution'
<1> p \in Actors
  BY DEF Actors
<1> PICK new : new = [Resting EXCEPT !.at = "save", !.next = NewPlan(repository)]
  OBVIOUS
<1>1. /\ DOMAIN new = DOMAIN Resting /\ new.at = "save" /\ new.base = 0 /\ new.read = 0
      /\ new.next = NewPlan(repository)
  BY DEF Resting
<1>2. Steps(p) /\ proc'[p] = new
  <2>1. proc' = [proc EXCEPT ![p] = new]
    BY DEF Enter
  <2>2. Shape /\ new.at \in Places /\ new.base \in Nat /\ DOMAIN new = DOMAIN Resting
    BY <1>1 DEF IInv, Places
  <2> QED BY <2>1, <2>2, Begins
<1>3. new.next.items = {}
  BY <1>1 DEF NewPlan
<1>4. UNCHANGED <<history, basis>>
  BY DEF Enter, journal
<1>5. Authored(p)'
  BY <1>1, <1>2, <1>3 DEF Authored
<1> QED
  BY <1>2, <1>4, <1>5, OnlyAuthors

LEMMA SubmitAuthors ==
    ASSUME IInv, Attribution, NEW p \in Proc, Submit(p) PROVE Attribution'
<1> p \in Actors
  BY DEF Actors
<1>a. PICK r \in DOMAIN history : \E ops \in OperationsOn(history[r]) :
        \E plan \in Merged(history[r], Latest, ops) :
            proc' = [proc EXCEPT ![p] = [Resting EXCEPT
                       !.at = "save", !.ops = ops, !.base = r,
                       !.read = Len(history), !.next = plan, !.tries = 1]]
  BY DEF Submit
<1>0. PICK ops \in OperationsOn(history[r]) :
        \E plan \in Merged(history[r], Latest, ops) :
            proc' = [proc EXCEPT ![p] = [Resting EXCEPT
                       !.at = "save", !.ops = ops, !.base = r,
                       !.read = Len(history), !.next = plan, !.tries = 1]]
  BY <1>a
<1>1. PICK plan \in Merged(history[r], Latest, ops) :
            proc' = [proc EXCEPT ![p] = [Resting EXCEPT
                       !.at = "save", !.ops = ops, !.base = r,
                       !.read = Len(history), !.next = plan, !.tries = 1]]
  BY <1>0
<1> PICK new : new = [Resting EXCEPT !.at = "save", !.ops = ops, !.base = r,
                        !.read = Len(history), !.next = plan, !.tries = 1]
  OBVIOUS
<1>2. /\ DOMAIN new = DOMAIN Resting /\ new.at = "save" /\ new.base = r
      /\ new.read = Len(history) /\ new.ops = ops /\ new.next = plan
  BY DEF Resting
<1>3. r \in Nat /\ Len(history) \in Nat \ {0} /\ Latest = history[Len(history)]
  BY LatestIs DEF IInv, Shape, IsSequence
<1>4. Steps(p) /\ proc'[p] = new
  <2>1. proc' = [proc EXCEPT ![p] = new]
    BY <1>1
  <2>2. Shape /\ new.at \in Places /\ new.base \in Nat /\ DOMAIN new = DOMAIN Resting
    BY <1>2, <1>3 DEF IInv, Places
  <2> QED BY <2>1, <2>2, Begins
<1>5. ops # <<>>
  <2>1. IsFiniteSet(history[r].items)
    BY DEF Attribution, Worded, AreItems
  <2> QED BY <2>1, ContributionOps DEF Contributions
<1>6. UNCHANGED <<history, basis>>
  BY DEF Submit, journal
<1>7. Authored(p)'
  BY <1>2, <1>3, <1>4, <1>5, <1>6 DEF Authored
<1> QED
  BY <1>4, <1>6, <1>7, OnlyAuthors

LEMMA MergeAuthors ==
    ASSUME IInv, Attribution, NEW p \in Actors, Merge(p) PROVE Attribution'
<1> DEFINE base == history[proc[p].base]
           ops  == proc[p].ops
<1>1. proc[p].base \in DOMAIN history /\ ops \in Contributions(base) /\ UNCHANGED <<history, basis>>
  BY DEF Merge, IInv, Written, journal
<1>2. CASE Rest(p)
  BY <1>1, <1>2, WalksOn
<1>3. ASSUME NEW plan \in Merged(base, Latest, ops),
             proc' = [proc EXCEPT ![p].at = "save", ![p].read = Len(history),
                                  ![p].next = plan, ![p].tries = @ + 1]
      PROVE  Attribution'
  <2> PICK new : new = proc'[p]
    OBVIOUS
  <2>1. /\ Steps(p) /\ new.at = "save" /\ new.read = Len(history)
        /\ new.next = plan /\ new.base = proc[p].base /\ new.ops = ops
    BY <1>3 DEF IInv, Shape, Steps, Places, Resting
  <2>2. Len(history) \in Nat \ {0} /\ Latest = history[Len(history)]
    BY <1>1, LatestIs DEF IInv
  <2>3. ops # <<>>
    <3>1. IsFiniteSet(base.items)
      BY <1>1 DEF Attribution, Worded, AreItems
    <3> QED BY <1>1, <3>1, ContributionOps
  <2>4. Authored(p)'
    BY <1>1, <1>3, <2>1, <2>2, <2>3 DEF Authored
  <2> QED BY <1>1, <2>1, <2>4, OnlyAuthors
<1> QED
  BY <1>2, <1>3 DEF Merge

LEMMA StabilizeAuthors ==
    ASSUME IInv, Attribution, NEW p \in Proc, NEW kind \in {"intent", "grounded"}, Stabilize(p, kind)
    PROVE  Attribution'
<1> p \in Actors
  BY DEF Actors
<1>0. PICK shown \in DOMAIN history : TRUE
  BY DEF Stabilize
<1>1. history # <<>> /\ UNCHANGED <<history, basis>>
  <2>1. history # <<>>
    OBVIOUS
  <2>2. UNCHANGED <<history, basis>>
    BY DEF Stabilize, journal
  <2> QED BY <2>1, <2>2
<1>2. /\ Len(history) \in DOMAIN history /\ Len(history) \in Nat \ {0}
      /\ Latest = history[Len(history)]
  BY <1>1, LatestIs DEF IInv
<1>3. ASSUME NEW ops, proc' = [proc EXCEPT ![p] = [Resting EXCEPT
                                 !.at = "merge", !.base = Len(history), !.ops = ops]]
      PROVE  Attribution'
  <2> PICK new : new = [Resting EXCEPT !.at = "merge", !.base = Len(history), !.ops = ops]
    OBVIOUS
  <2>1. /\ DOMAIN new = DOMAIN Resting /\ new.at = "merge" /\ new.base = Len(history)
        /\ new.next = <<>>
    BY DEF Resting
  <2>2. Steps(p) /\ proc'[p] = new
    <3>1. proc' = [proc EXCEPT ![p] = new]
      BY <1>3
    <3>2. Shape /\ new.at \in Places /\ new.base \in Nat /\ DOMAIN new = DOMAIN Resting
      BY <1>2, <2>1 DEF IInv, Places
    <3> QED BY <3>1, <3>2, Begins
  <2>3. Authored(p)'
    BY <2>1, <2>2 DEF Authored, Carries
  <2> QED BY <1>1, <2>2, <2>3, OnlyAuthors
<1>4. CASE proc' = [proc EXCEPT ![p] = [Resting EXCEPT
                      !.at = "save", !.base = Len(history), !.read = Len(history),
                      !.next = Stabilized(Latest, kind)]]
  <2> PICK plan : plan = Stabilized(Latest, kind)
    OBVIOUS
  <2> PICK new : new = [Resting EXCEPT !.at = "save", !.base = Len(history),
                                       !.read = Len(history), !.next = plan]
    OBVIOUS
  <2>1. /\ DOMAIN new = DOMAIN Resting /\ new.at = "save" /\ new.base = Len(history)
        /\ new.read = Len(history) /\ new.ops = <<>> /\ new.next = plan
    BY DEF Resting
  <2>2. Steps(p) /\ proc'[p] = new
    <3>1. proc' = [proc EXCEPT ![p] = new]
      BY <1>4
    <3>2. Shape /\ new.at \in Places /\ new.base \in Nat /\ DOMAIN new = DOMAIN Resting
      BY <1>2, <2>1 DEF IInv, Places
    <3> QED BY <3>1, <3>2, Begins
  <2>3. plan.items = Latest.items
    BY <1>2 DEF Stabilized, IInv, Journal, WellMade, Fields
  <2>4. Authored(p)'
    BY <1>1, <1>2, <2>1, <2>2, <2>3 DEF Authored
  <2> QED BY <1>1, <2>2, <2>4, OnlyAuthors
<1> QED
  BY <1>3, <1>4 DEF Stabilize

LEMMA BeginPublishAuthors ==
    ASSUME IInv, Attribution, NEW p \in Proc, BeginPublish(p) PROVE Attribution'
<1> p \in Actors
  BY DEF Actors
<1> PICK plan : plan = Published(Latest)
  OBVIOUS
<1> PICK new : new = [Resting EXCEPT
                  !.at = IF indexed THEN "plan" ELSE "journal",
                  !.read = Len(history), !.base = Len(history),
                  !.next = plan, !.draft = draft]
  OBVIOUS
<1>1. /\ DOMAIN new = DOMAIN Resting /\ new.at \in {"plan", "journal"}
      /\ new.base = Len(history) /\ new.read = Len(history) /\ new.ops = <<>>
      /\ new.next = plan
  BY DEF Resting
<1>2. /\ Len(history) \in DOMAIN history /\ Len(history) \in Nat \ {0}
      /\ Latest = history[Len(history)]
  BY LatestIs DEF IInv, BeginPublish
<1>3. Steps(p) /\ proc'[p] = new
  <2>1. proc' = [proc EXCEPT ![p] = new]
    BY DEF BeginPublish
  <2>2. Shape /\ new.at \in Places /\ new.base \in Nat /\ DOMAIN new = DOMAIN Resting
    BY <1>1, <1>2 DEF IInv, Places
  <2> QED BY <2>1, <2>2, Begins
<1>4. plan.items = Latest.items
  BY <1>2 DEF Published, IInv, Journal, WellMade, Fields
<1>5. UNCHANGED <<history, basis>>
  BY DEF BeginPublish, journal
<1>6. Authored(p)'
  BY <1>1, <1>2, <1>3, <1>4, <1>5 DEF Authored
<1> QED
  BY <1>3, <1>5, <1>6, OnlyAuthors

LEMMA RecoverAuthors ==
    ASSUME IInv, Attribution, Recover PROVE Attribution'
<1> Doctor \in Actors
  BY DEF Actors
<1> PICK new : new = [Resting EXCEPT !.at = "journal", !.read = publication.revision,
                                     !.draft = draft]
  OBVIOUS
<1>1. /\ DOMAIN new = DOMAIN Resting /\ new.at = "journal" /\ new.base = 0 /\ new.next = <<>>
  BY DEF Resting
<1>2. Steps(Doctor) /\ proc'[Doctor] = new
  <2>1. proc' = [proc EXCEPT ![Doctor] = new]
    BY DEF Recover
  <2>2. Shape /\ new.at \in Places /\ new.base \in Nat /\ DOMAIN new = DOMAIN Resting
    BY <1>1 DEF IInv, Places
  <2> QED BY <2>1, <2>2, Begins
<1>3. Authored(Doctor)'
  BY <1>1, <1>2 DEF Authored, Carries
<1> QED
  BY <1>2, <1>3, OnlyAuthors DEF Recover, journal

LEMMA SaveConflictAuthors ==
    ASSUME IInv, Attribution, NEW p \in Actors, SaveConflict(p) PROVE Attribution'
<1>1. CASE Rest(p)
  BY <1>1, WalksOn DEF SaveConflict, journal
<1>2. CASE proc' = [proc EXCEPT ![p].at = "merge", ![p].next = <<>>]
  <2>1. Steps(p) /\ proc'[p].at = "merge" /\ proc'[p].next = <<>>
    BY <1>2 DEF IInv, Shape, Steps, Places, Resting
  <2>2. Authored(p)'
    BY <2>1 DEF Authored, Carries
  <2> QED BY <2>1, <2>2, OnlyAuthors DEF SaveConflict, journal
<1> QED
  BY <1>1, <1>2 DEF SaveConflict

(* The plan that is saved evolves from the last one, which save finds to be   *)
(* the one that was read.                                                     *)
LEMMA SavedEvolves ==
    ASSUME IInv, Attribution, NEW p \in Actors, At(p, "save"), StillLatest(p)
    PROVE  LET old == IF history = <<>> THEN {} ELSE Latest.items
           IN  Evolves(old, proc[p].next.items, Len(history) + 1, proc[p].base)
<1> PICK plan : plan = proc[p].next
  OBVIOUS
<1>1. Carries(p) /\ proc[p].read = Len(history) /\ Authored(p)
  BY DEF Carries, At, StillLatest, Attribution
<1>2. history = <<>> <=> Len(history) = 0
  BY Unstarted DEF IInv, Shape
<1>3. CASE history = <<>>
  <2>1. plan.items = {} /\ Len(history) + 1 = 1
    BY <1>1, <1>2, <1>3 DEF Authored
  <2>2. AreItems({}, 1)
    BY FS_EmptySet DEF AreItems
  <2>3. Evolves({}, {}, 1, proc[p].base)
    BY <2>2 DEF Evolves
  <2> QED BY <1>3, <2>1, <2>3
<1>4. CASE history # <<>>
  <2>1. /\ Len(history) \in DOMAIN history /\ Len(history) \in Nat \ {0}
        /\ Latest = history[Len(history)]
    BY <1>4, LatestIs DEF IInv
  <2>2. WellMade(Len(history)) /\ AreItems(Latest.items, Len(history))
    BY <2>1 DEF IInv, Journal, Attribution, Worded
  <2>3. Latest.revision = Len(history) /\ DOMAIN Latest = Fields
    BY <2>1, <2>2 DEF WellMade
  <2>4. CASE proc[p].ops = <<>>
    <3>1. plan.items = Latest.items
      BY <1>1, <2>1, <2>4 DEF Authored
    <3>2. AreItems(Latest.items, Len(history) + 1)
      BY <2>1, <2>2 DEF AreItems, IsItem
    <3> QED BY <1>4, <3>1, <3>2 DEF Evolves
  <2>5. CASE proc[p].ops # <<>>
    <3> DEFINE base == history[proc[p].base]
    <3>1. proc[p].base \in DOMAIN history /\ proc[p].ops \in Contributions(base)
      BY <2>5 DEF IInv, Written
    <3>2. base.revision = proc[p].base /\ proc[p].base \in Nat /\ AreItems(base.items, proc[p].base)
      BY <3>1 DEF IInv, Journal, WellMade, Attribution, Worded, Shape
    <3>3. plan \in Merged(base, Latest, proc[p].ops)
      BY <1>1, <2>1, <2>5 DEF Authored
    <3> HIDE DEF base
    <3>4. Evolves(Latest.items, plan.items, Latest.revision + 1, base.revision)
      BY <2>1, <2>2, <2>3, <3>1, <3>2, <3>3, MergedEvolves
    <3> QED BY <1>4, <2>3, <3>2, <3>4
  <2> QED BY <2>4, <2>5
<1> QED
  BY <1>3, <1>4

LEMMA SaveRevisionAuthors ==
    ASSUME IInv, IInv', Attribution, NEW p \in Actors, SaveRevision(p) PROVE Attribution'
<1> PICK plan : plan = proc[p].next
  OBVIOUS
<1> PICK len \in Nat : len = Len(history)
  BY DEF IInv, Shape, IsSequence
<1> PICK base \in Nat : base = proc[p].base
  BY DEF IInv, Shape
<1>1. /\ Steps(p) /\ proc'[p].at = "event" /\ proc'[p].next = plan
      /\ proc'[p].ops = proc[p].ops /\ proc'[p].base = base /\ proc'[p].read = proc[p].read
  BY GoesTo DEF SaveRevision, IInv, Places
<1>2. /\ history' = Append(history, plan) /\ basis' = Append(basis, base)
      /\ UNCHANGED <<planFiles, marker, indexed, listed, confirmed>> /\ At(p, "save")
  BY DEF SaveRevision, artifacts
<1>3. /\ DOMAIN history = 1..len /\ DOMAIN history' = 1..(len + 1) /\ Len(history') = len + 1
      /\ \A n \in DOMAIN history : history'[n] = history[n]
      /\ history'[len + 1] = plan
      /\ \A r \in 0..len : SubSeq(history', 1, r) = SubSeq(history, 1, r)
  BY <1>2, Appended DEF IInv, Shape
<1>4. /\ basis'[len + 1] = base /\ \A n \in 1..len : basis'[n] = basis[n]
  BY <1>2 DEF IInv, Shape
<1>5. Grows
  BY <1>2, <1>3 DEF Grows
<1> PICK old : old = IF history = <<>> THEN {} ELSE Latest.items
  OBVIOUS
<1>6. Evolves(old, plan.items, len + 1, base)
  BY <1>2, SavedEvolves DEF SaveRevision
<1>7. history' # <<>> /\ Latest' = plan
  BY <1>3 DEF Latest
<1>8. \A i \in old : history # <<>> /\ i \in Latest.items /\ IsItem(i, len)
  BY LatestIs DEF IInv, Attribution, Worded, AreItems
<1>9. Worded'
  <2>1. ASSUME NEW n \in 1..(len + 1) PROVE AreItems(history'[n].items, n)
    <3>1. CASE n = len + 1
      BY <1>3, <1>6, <3>1 DEF Evolves
    <3>2. CASE n # len + 1
      <4>1. n \in DOMAIN history
        BY <1>3, <3>2
      <4> QED BY <1>3, <4>1 DEF Attribution, Worded
    <3> QED BY <3>1, <3>2
  <2> QED BY <1>3, <2>1 DEF Worded
<1>10. ASSUME NEW i \in plan.items, i.until # 0
       PROVE  Excused(i, plan.items, basis'[i.until])
  <2>1. IsItem(i, len + 1)
    BY <1>6 DEF Evolves, AreItems
  <2>2. CASE i \in old
    <3>1. i.until \in 1..len
      BY <1>8, <1>10, <2>2 DEF IsItem
    <3>2. Excused(i, old, basis[i.until])
      <4>1. old = Latest.items
        BY <1>8, <2>2
      <4> QED BY <1>8, <1>10, <2>2, <4>1
              DEF Attribution, NothingUnseenIsSuperseded, Seen, FellWith, Reworded, Recontributed, Excused
    <3>3. \A j \in old : IsItem(j, len + 1)
      BY <1>8 DEF IsItem
    <3>4. Excused(i, plan.items, basis[i.until])
      BY <1>6, <1>10, <2>2, <3>2, <3>3, ExcusedStays
    <3> QED BY <1>4, <3>1, <3>4
  <2>3. CASE i.since = len + 1
    <3>1. i.until = len + 1
      BY <1>10, <2>1, <2>3 DEF IsItem
    <3> QED BY <2>3, <3>1 DEF Excused
  <2>4. CASE i.until = len + 1 /\ Excused(i, plan.items, base)
    BY <1>4, <2>4
  <2> QED BY <1>6, <2>2, <2>3, <2>4 DEF Evolves
<1>11. NothingUnseenIsSuperseded'
  BY <1>7, <1>10 DEF NothingUnseenIsSuperseded, Seen, FellWith, Reworded, Recontributed, Excused
<1>12. ASSUME NEW q \in Actors PROVE Authored(q)'
  <2>1. /\ proc'[q].ops = proc[q].ops /\ proc'[q].base = proc[q].base
        /\ proc'[q].read = proc[q].read /\ proc'[q].next = proc[q].next
        /\ Carries(q)' => Carries(q)
    BY <1>1, <1>2 DEF Steps, Carries, At
  <2> QED BY <1>5, <2>1, AuthoredStays DEF Attribution
<1> QED
  BY <1>9, <1>11, <1>12 DEF Attribution

LEMMA InitAuthors == Init => Attribution
<1> SUFFICES ASSUME Init PROVE Attribution
  OBVIOUS
<1>1. history = <<>> /\ \A p \in Actors : proc[p].next = <<>> /\ proc[p].at = "idle"
  BY DEF Init, Resting
<1> QED
  BY <1>1 DEF Attribution, Worded, NothingUnseenIsSuperseded, Authored, Carries

LEMMA StepAuthors ==
    ASSUME IInv, IInv', Attribution, [Next]_vars PROVE Attribution'
<1>1. ASSUME NEW p \in Proc, Enter(p) \/ Submit(p) \/ BeginPublish(p) PROVE Attribution'
  BY <1>1, EnterAuthors, SubmitAuthors, BeginPublishAuthors
<1>2. ASSUME NEW p \in Proc, NEW kind \in {"intent", "grounded"}, Stabilize(p, kind) PROVE Attribution'
  BY <1>2, StabilizeAuthors
<1>3. CASE Recover
  BY <1>3, RecoverAuthors
<1>4. ASSUME NEW p \in Actors, StepOfPlan(p) PROVE Attribution'
  <2>1. CASE Merge(p) \/ SaveRevision(p) \/ SaveConflict(p)
    BY <2>1, MergeAuthors, SaveRevisionAuthors, SaveConflictAuthors
  <2>2. CASE SaveEvent(p)
    BY <2>2, WalksOn DEF SaveEvent, Places
  <2>3. CASE SavePointer(p)
    BY <2>3, WalksOn DEF SavePointer
  <2>4. CASE WritePlan(p)
    BY <2>4, WalksOn DEF WritePlan, Places, Carries, At, journal
  <2>5. CASE ListPlan(p)
    BY <2>5, WalksOn DEF ListPlan, Places, Carries, At, journal
  <2>6. CASE ImportProject(p)
    BY <2>6, WalksOn DEF ImportProject, Places, Carries, At, journal
  <2> QED
    BY <1>4, <2>1, <2>2, <2>3, <2>4, <2>5, <2>6 DEF StepOfPlan
<1>5. ASSUME NEW p \in Actors, StepOfPublication(p) PROVE Attribution'
  <2>1. UNCHANGED <<history, basis>>
    BY <1>5 DEF StepOfPublication, TakeJournal, RefusedJournal, Resume, Effect, Commit, CommitPlan,
       CommitMarker, UnlinkStaged, Tidies, IndexProject, Turn, Blocked, journal
  <2>2. \/ Rest(p)
        \/ proc[p].next # <<>> /\ proc' = [proc EXCEPT ![p].at = "import"]
        \/ \E place \in {"resume", "effect", "unlink", "index", "turn"} : proc' = [proc EXCEPT ![p].at = place]
    BY <1>5 DEF StepOfPublication, TakeJournal, RefusedJournal, Resume, Effect, Commit, CommitPlan,
       CommitMarker, UnlinkStaged, Tidies, IndexProject, Turn, Blocked, Leave, Fails
  <2>3. proc[p].next # <<>> => Carries(p)
    BY DEF Carries
  <2> QED
    BY <2>1, <2>2, <2>3, WalksOn DEF Places
<1>6. ASSUME NEW p \in Actors, Fault(p) \/ Crash(p) PROVE Attribution'
  BY <1>6, WalksOn DEF Fault, Crash, Fails, journal
<1>7. CASE EnterMarked \/ ForeignMarker \/ RepositoryMoves \/ UNCHANGED vars
  BY <1>7 DEF EnterMarked, ForeignMarker, RepositoryMoves, vars, journal, Attribution, Worded, Authored,
     Carries, NothingUnseenIsSuperseded, Latest, Seen, FellWith, Reworded, Recontributed
<1> QED
  BY <1>1, <1>2, <1>3, <1>4, <1>5, <1>6, <1>7 DEF Next

(* A statement is superseded only by somebody who had read it, or together    *)
(* with what it rests on: a delta written on an older revision is kept beside *)
(* what it contradicts, whatever was contributed, confirmed and merged in the *)
(* meantime (applyDelta, preserveConcurrentContradictions).                   *)
THEOREM UnseenStays == Spec => []NothingUnseenIsSuperseded
<1>1. IInv /\ IInv' /\ Attribution /\ [Next]_vars => Attribution'
  BY StepAuthors
<1>2. Attribution => NothingUnseenIsSuperseded
  BY DEF Attribution
<1> QED
  BY <1>1, <1>2, InitAuthors, Inductive, PTL DEF Spec
=============================================================================
