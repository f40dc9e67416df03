--------------------------- MODULE ApprovalProofs ----------------------------
(***************************************************************************)
(* Proofs about Approval, for every set of users, of element               *)
(* configurations, of assignee lists and for every bound on the records.   *)
(***************************************************************************)
EXTENDS Approval, ListProofs, FiniteSetTheorems, FunctionTheorems

\* The members of a list are what it is a list of; only the empty list has none.
LEMMA MembersFacts ==
    ASSUME NEW U, NEW s \in Seq(U)
    PROVE  Members(s) \subseteq U /\ (Members(s) = {} <=> s = <<>>)
BY DEF Members

\* The members of two lists joined.
LEMMA MembersConcat ==
    ASSUME NEW U, NEW s \in Seq(U), NEW t \in Seq(U)
    PROVE  s \o t \in Seq(U) /\ Members(s \o t) = Members(s) \cup Members(t)
<1> DEFINE r == s \o t
<1>1. /\ r \in Seq(U) /\ Len(r) = Len(s) + Len(t)
      /\ \A k \in 1..Len(s) : r[k] = s[k]
      /\ \A k \in 1..Len(t) : r[Len(s) + k] = t[k]
  OBVIOUS
<1>2. /\ DOMAIN s = 1..Len(s) /\ DOMAIN t = 1..Len(t) /\ DOMAIN r = 1..(Len(s) + Len(t))
      /\ Len(s) \in Nat /\ Len(t) \in Nat
  BY <1>1
<1> HIDE DEF r
<1>3. ASSUME NEW k \in DOMAIN r PROVE r[k] \in Members(s) \cup Members(t)
  <2>1. CASE k \in 1..Len(s)
    BY <1>1, <1>2, <2>1 DEF Members
  <2>2. CASE k \notin 1..Len(s)
    <3>1. k - Len(s) \in 1..Len(t) /\ k = Len(s) + (k - Len(s))
      BY <1>2, <2>2
    <3>2. r[k] = t[k - Len(s)]
      BY <1>1, <3>1
    <3> QED
      BY <1>2, <3>1, <3>2 DEF Members
  <2> QED
    BY <2>1, <2>2
<1>4. ASSUME NEW k \in DOMAIN s PROVE s[k] \in Members(r)
  BY <1>1, <1>2 DEF Members
<1>5. ASSUME NEW k \in DOMAIN t PROVE t[k] \in Members(r)
  <2>1. Len(s) + k \in DOMAIN r /\ r[Len(s) + k] = t[k]
    BY <1>1, <1>2
  <2> QED
    BY <2>1 DEF Members
<1>6. Members(r) = Members(s) \cup Members(t)
  BY <1>3, <1>4, <1>5 DEF Members
<1> QED
  BY <1>1, <1>6 DEF r

\* What an in-place removal leaves behind shows nobody who was not there.
LEMMA CompactedFacts ==
    ASSUME NEW s \in Seq(Users), NEW u
    PROVE  /\ Compacted(s, u) \in Seq(Users)
           /\ Members(s) \ {u} \subseteq Members(Compacted(s, u))
<1> DEFINE w == Without(s, u)
           n == Len(w) + 1
           t == SubSeq(s, n, Len(s))
<1>1. w \in Seq(Users) /\ Members(w) = Members(s) \ {u}
  BY OutsideFacts DEF Without
<1>2. t \in Seq(Users)
  <2>1. n \in Nat \ {0}
    BY <1>1
  <2> HIDE DEF n
  <2> QED
    BY <2>1
<1> HIDE DEF w, n, t
<1>3. w \o t \in Seq(Users) /\ Members(w \o t) = Members(w) \cup Members(t)
  BY <1>1, <1>2, MembersConcat
<1> QED
  BY <1>1, <1>3 DEF Compacted, w, n, t

\* Taking an assignee off a list.
LEMMA WithoutFacts ==
    ASSUME NEW s \in Seq(Users), NEW u
    PROVE  /\ Without(s, u) \in Seq(Users)
           /\ Members(Without(s, u)) = Members(s) \ {u}
BY OutsideFacts DEF Without

\* removeString keeps nil nil and takes one assignee off.
LEMMA RemoveFacts ==
    ASSUME NEW p \in MaybeList, NEW u
    PROVE  /\ removeString(p, u) \in MaybeList
           /\ removeString(p, u).nil = p.nil
           /\ Members(removeString(p, u).list) = Members(p.list) \ {u}
<1>1. p.list \in Seq(Users) /\ p.nil \in BOOLEAN
  BY DEF MaybeList
<1>2. /\ Without(p.list, u) \in Seq(Users)
      /\ Members(Without(p.list, u)) = Members(p.list) \ {u}
  BY <1>1, WithoutFacts
<1>3. removeString(p, u) = [nil |-> p.nil, list |-> Without(p.list, u)]
  BY DEF removeString, MaybeList
<1> QED
  BY <1>1, <1>2, <1>3 DEF MaybeList

\* A copy of a list is that list, or nil if it is empty.
LEMMA CopiedFacts ==
    ASSUME NEW s \in Seq(Users)
    PROVE  Copied(s) \in MaybeList /\ Copied(s).list = s /\ (Copied(s).nil <=> s = <<>>)
BY DEF Copied, MaybeList, Nil, List

\* Whom a new list leaves pending: all of it, or its head in a sequence.
LEMMA PendingFacts ==
    ASSUME NEW mode, NEW s \in Seq(Users)
    PROVE  /\ pendingForMode(mode, s) \in MaybeList
           /\ pendingForMode(mode, s).nil <=> s = <<>>
           /\ mode # "sequential" => pendingForMode(mode, s).list = s
           /\ mode = "sequential" /\ s # <<>> => pendingForMode(mode, s) = List(<<s[1]>>)
<1>1. CASE mode = "sequential" /\ s # <<>>
  <2>1. Head(s) = s[1] /\ Head(s) \in Users
    BY <1>1
  <2>2. <<Head(s)>> \in Seq(Users)
    BY <2>1
  <2> QED
    BY <1>1, <2>1, <2>2 DEF pendingForMode, List, MaybeList
<1>2. CASE ~(mode = "sequential" /\ s # <<>>)
  BY <1>2, CopiedFacts DEF pendingForMode
<1> QED
  BY <1>1, <1>2

\* indexOfString finds the first position of a member, and no other position.
LEMMA IndexFacts ==
    ASSUME NEW U, NEW s \in Seq(U), NEW u
    PROVE  /\ IndexOf(s, u) \in 0..Len(s)
           /\ u \in Members(s) => IndexOf(s, u) \in DOMAIN s /\ s[IndexOf(s, u)] = u
           /\ u \notin Members(s) => IndexOf(s, u) = 0
<1>1. CASE u \notin Members(s)
  BY <1>1 DEF IndexOf
<1>2. CASE u \in Members(s)
  <2> DEFINE At == {k \in DOMAIN s : s[k] = u}
  <2>1. At \subseteq Nat /\ At # {} /\ DOMAIN s = 1..Len(s)
    BY <1>2 DEF Members
  <2>2. PICK k \in At : \A j \in At : k <= j
    <3> HIDE DEF At
    <3> QED
      BY <2>1, LeastNumber
  <2>3. \E i \in DOMAIN s : s[i] = u /\ \A j \in 1..(i-1) : s[j] # u
    <3>1. \A j \in 1..(k-1) : s[j] # u
      BY <2>1, <2>2
    <3> QED
      BY <3>1
  <2>4. IndexOf(s, u) \in DOMAIN s /\ s[IndexOf(s, u)] = u
    BY <1>2, <2>3 DEF IndexOf
  <2> QED
    BY <1>2, <2>1, <2>4
<1> QED
  BY <1>1, <1>2

-----------------------------------------------------------------------------
(* Votes *)

\* rs adds to the records a vote and perhaps some skipped assignees.
AddsVote(rs, u, action) ==
    /\ rs \in Seq(Record)
    /\ Len(records) + 1 \in DOMAIN rs
    /\ rs[Len(records) + 1] = [who |-> u, action |-> action]
    /\ \A k \in DOMAIN records : k \in DOMAIN rs /\ rs[k] = records[k]
    /\ \A k \in DOMAIN rs :
         k \notin DOMAIN records /\ k # Len(records) + 1 => rs[k].action = "skipped"

\* What a vote appends.
LEMMA RecordedFacts ==
    ASSUME TypeOK, NEW u \in Users \cup {Anonymous},
           NEW action \in {"approve", "reject", "skipped"}
    PROVE  AddsVote(Recorded(u, action), u, action)
<1>1. records \in Seq(Record) /\ [who |-> u, action |-> action] \in Record
  BY DEF TypeOK, Record
<1> QED
  BY <1>1 DEF AddsVote, Recorded

\* What the vote that reaches the quota appends.
LEMMA SkippedFacts ==
    ASSUME TypeOK, NEW u \in Users \cup {Anonymous},
           NEW action \in {"approve", "reject", "skipped"}
    PROVE  AddsVote(Skipped(Recorded(u, action)), u, action)
<1> DEFINE rs == Recorded(u, action)
           voters == {rs[k].who : k \in DOMAIN rs}
           left == Outside(pool, voters)
           more == [k \in DOMAIN left |-> [who |-> left[k], action |-> "skipped"]]
<1>1. AddsVote(rs, u, action)
  BY RecordedFacts
<1>2. left \in Seq(Users)
  BY OutsideFacts DEF TypeOK
<1>3. more \in Seq(Record) /\ \A k \in DOMAIN more : more[k].action = "skipped"
  <2> HIDE DEF left
  <2>1. DOMAIN left = 1..Len(left) /\ Len(left) \in Nat /\ \A k \in DOMAIN left : left[k] \in Users
    BY <1>2
  <2> QED
    BY <2>1 DEF Record
<1>4. Skipped(rs) = rs \o more
  BY DEF Skipped
<1> HIDE DEF rs, left, more
<1>5. /\ rs \o more \in Seq(Record)
      /\ DOMAIN (rs \o more) = 1..(Len(rs) + Len(more))
      /\ DOMAIN rs = 1..Len(rs) /\ Len(rs) \in Nat /\ Len(more) \in Nat
      /\ \A k \in DOMAIN rs : (rs \o more)[k] = rs[k]
      /\ \A k \in (Len(rs) + 1)..(Len(rs) + Len(more)) :
           k - Len(rs) \in DOMAIN more /\ (rs \o more)[k] = more[k - Len(rs)]
  BY <1>1, <1>3 DEF AddsVote
<1> DEFINE all == rs \o more
<1>6. /\ all \in Seq(Record)
      /\ DOMAIN rs \subseteq DOMAIN all
      /\ \A k \in DOMAIN rs : all[k] = rs[k]
      /\ \A k \in DOMAIN all \ DOMAIN rs : all[k].action = "skipped"
  BY <1>3, <1>5
<1> HIDE DEF all
<1>7. AddsVote(all, u, action)
  BY <1>1, <1>6 DEF AddsVote
<1> QED
  BY <1>4, <1>7 DEF all, rs

\* Every vote, whatever the mode and however it ends, adds itself.
LEMMA VoteAdds ==
    ASSUME TypeOK, NEW u \in Users \cup {Anonymous}
    PROVE  /\ Approve(u) => AddsVote(records', u, "approve")
           /\ Reject(u) => AddsVote(records', u, "reject")
BY RecordedFacts, SkippedFacts
   DEF Approve, Reject, approveAny, approveAll, approveSequential

\* Whom a vote adds to those who have approved and to those who have voted.
LEMMA VoteCounts ==
    ASSUME TypeOK, NEW u \in Users \cup {Anonymous}, NEW action \in {"approve", "reject"},
           AddsVote(records', u, action)
    PROVE  /\ Approvals' = Approvals \cup (IF action = "approve" THEN {Len(records) + 1} ELSE {})
           /\ ApprovedBy' = ApprovedBy \cup (IF action = "approve" THEN {u} ELSE {})
           /\ Acted' = Acted \cup ({u} \ {Anonymous})
           /\ Len(records) + 1 \notin DOMAIN records
<1> DEFINE n == Len(records) + 1
<1>1. /\ n \in DOMAIN records' /\ n \notin DOMAIN records
      /\ records'[n].who = u /\ records'[n].action = action
      /\ \A k \in DOMAIN records : k \in DOMAIN records' /\ records'[k] = records[k]
      /\ \A k \in DOMAIN records' :
           k \in DOMAIN records \/ k = n \/ records'[k].action = "skipped"
  BY DEF AddsVote, TypeOK
<1> HIDE DEF n
<1>2. Approvals' = Approvals \cup (IF action = "approve" THEN {n} ELSE {})
  BY <1>1 DEF Approvals
<1>3. ApprovedBy' = ApprovedBy \cup (IF action = "approve" THEN {u} ELSE {})
  <2>1. \A k \in Approvals : k \in DOMAIN records /\ records'[k] = records[k]
    BY <1>1 DEF Approvals
  <2> QED
    BY <1>1, <1>2, <2>1 DEF ApprovedBy
<1>4. Acted' = Acted \cup ({u} \ {Anonymous})
  <2>1. {k \in DOMAIN records' : records'[k].action # "skipped"}
          = {k \in DOMAIN records : records[k].action # "skipped"} \cup {n}
    BY <1>1
  <2> DEFINE V == {k \in DOMAIN records : records[k].action # "skipped"}
  <2>2. \A k \in V : records'[k] = records[k]
    BY <1>1
  <2>3. Acted = {records[k].who : k \in V} \ {Anonymous}
    BY DEF Acted
  <2>4. Acted' = {records'[k].who : k \in V \cup {n}} \ {Anonymous}
    BY <2>1 DEF Acted
  <2> HIDE DEF V
  <2> QED
    BY <1>1, <2>2, <2>3, <2>4
<1> QED
  BY <1>1, <1>2, <1>3, <1>4 DEF n

-----------------------------------------------------------------------------
(* The type invariant and one vote each *)

\* The state at activation is typed and nobody has voted.
LEMMA InitTyped == Init => TypeOK /\ OneVoteEach
<1> SUFFICES ASSUME Init PROVE TypeOK /\ OneVoteEach
  OBVIOUS
<1>1. /\ el \in ElementConfigs /\ el.assignees \in Seq(Users) /\ el.required \in Nat
      /\ el.mode \in {"any", "all", "sequential"}
  BY ApprovalAssumption DEF Init
<1>2. pool \in Seq(Users)
  BY <1>1, ApprovalAssumption DEF Init, resolveTaskAssignees
<1>3. pending \in MaybeList
  BY <1>2, PendingFacts DEF Init
<1>4. quota \in Nat \ {0}
  <2>1. el.assignees # <<>> => Len(el.assignees) \in Nat \ {0}
    BY <1>1
  <2> QED
    BY <1>1, <2>1 DEF Init, RequiredApprovals
<1>5. sync \in [user : Users \cup {Anonymous}, assignees : Seq(Users), pending : MaybeList]
  BY DEF Init, NoSync, Nil, MaybeList
<1> QED
  BY <1>1, <1>2, <1>3, <1>4, <1>5 DEF Init, TypeOK, OneVoteEach

\* The lists a vote leaves pending.
LEMMA ApproveTyped ==
    ASSUME TypeOK, NEW u \in Users \cup {Anonymous}, Approve(u)
    PROVE  TypeOK'
<1>1. /\ el.assignees \in Seq(Users)
      /\ pool \in Seq(Users) /\ pending \in MaybeList /\ status = "active"
  BY ApprovalAssumption DEF TypeOK, Approve, MayVote
<1>2. removeString(pending, u) \in MaybeList
  BY <1>1, RemoveFacts
<1>3. Nil \in MaybeList
  BY DEF Nil, MaybeList
<1>4. records' \in Seq(Record)
  BY VoteAdds DEF AddsVote
<1>5. pending' \in MaybeList /\ status' \in {"active", "completed"}
  <2>1. CASE approveAny(u)
    BY <1>1, <1>2, <1>3, <2>1 DEF approveAny, Close
  <2>2. CASE approveAll(u)
    BY <1>1, <1>2, <1>3, <2>2 DEF approveAll, Close
  <2>3. CASE approveSequential(u)
    <3> DEFINE k == IF IndexOf(el.assignees, u) > 0 THEN IndexOf(el.assignees, u)
                    ELSE IndexOf(pool, u)
    <3>1. IndexOf(el.assignees, u) \in Nat /\ IndexOf(pool, u) \in Nat
      BY <1>1, IndexFacts
    <3>2. k \in Nat /\ Len(el.assignees) \in Nat
      BY <1>1, <3>1
    <3>3. \/ pending' = Nil /\ status' = "completed"
          \/ k < Len(el.assignees) /\ pending' = List(<<el.assignees[k+1]>>) /\ status' = status
      BY <2>3, <3>2 DEF approveSequential, Close
    <3> HIDE DEF k
    <3>4. k < Len(el.assignees) => el.assignees[k+1] \in Users
      BY <1>1, <3>2
    <3>5. k < Len(el.assignees) => List(<<el.assignees[k+1]>>) \in MaybeList
      BY <3>4 DEF List, MaybeList
    <3> QED
      BY <1>1, <1>3, <3>3, <3>5
  <2> QED
    BY <2>1, <2>2, <2>3 DEF Approve
<1> QED
  BY <1>4, <1>5 DEF Approve, TypeOK

\* The lists a change of assignees leaves.
LEMMA UpdateTyped ==
    ASSUME TypeOK, NEW s \in Seq(Users), NEW p \in MaybeList, UpdateActivityAssignees(s, p)
    PROVE  pool' = s /\ pending' \in MaybeList
<1>1. pool \in Seq(Users) /\ pending \in MaybeList /\ p.list \in Seq(Users)
  BY DEF TypeOK, MaybeList
<1>2. taskPendingAssignees \in Seq(Users)
  BY <1>1 DEF taskPendingAssignees, MaybeList
<1>3. pendingForMode(el.mode, s).list \in Seq(Users)
  BY PendingFacts DEF MaybeList
<1>4. DefaultPending(s) \in Seq(Users)
  <2>1. taskPendingAssignees # <<>> => <<Head(taskPendingAssignees)>> \in Seq(Users)
    BY <1>2
  <2> QED
    BY <1>3, <2>1 DEF DefaultPending
<1>5. (IF p.nil THEN DefaultPending(s) ELSE p.list) \in Seq(Users)
  BY <1>1, <1>4
<1> QED
  BY <1>5, CopiedFacts DEF UpdateActivityAssignees

\* The lists RemoveUserFromActiveTasks is about to apply.
LEMMA ListedTyped ==
    ASSUME TypeOK, NEW u \in Users, ListForRemoval(u)
    PROVE  /\ sync' \in [user : Users \cup {Anonymous}, assignees : Seq(Users), pending : MaybeList]
           /\ Members(sync'.assignees) = Members(pool) \ {u}
           /\ ~pending.nil => Members(pending.list) \ {u} \subseteq Members(sync'.pending.list)
           /\ pending.nil => Members(pool) \ {u} \subseteq Members(sync'.pending.list)
<1> DEFINE c == Compacted(pool, u)
           w == Without(c, u)
           l == IF pending.nil THEN List(w) ELSE removeString(pending, u)
<1>1. pool \in Seq(Users) /\ pending \in MaybeList
  BY DEF TypeOK
<1>2. c \in Seq(Users) /\ Members(pool) \ {u} \subseteq Members(c)
  BY <1>1, CompactedFacts
<1>3. w \in Seq(Users) /\ Members(w) = Members(c) \ {u}
  <2> HIDE DEF c
  <2> QED
    BY <1>2, WithoutFacts
<1>4. Without(pool, u) \in Seq(Users) /\ Members(Without(pool, u)) = Members(pool) \ {u}
  BY <1>1, WithoutFacts
<1>5. /\ removeString(pending, u) \in MaybeList
      /\ Members(removeString(pending, u).list) = Members(pending.list) \ {u}
  BY <1>1, RemoveFacts
<1>6. sync' = [user |-> u, assignees |-> Without(pool, u), pending |-> l]
  BY DEF ListForRemoval
<1> HIDE DEF c, w
<1>7. List(w) \in MaybeList /\ List(w).list = w
  BY <1>3 DEF List, MaybeList
<1>8. l \in MaybeList
  BY <1>5, <1>7
<1> QED
  BY <1>2, <1>3, <1>4, <1>5, <1>6, <1>7, <1>8

\* A vote that the checks of applyApprovalStep let through is the first of its
\* voter, unless it names nobody.
LEMMA VoteOnce ==
    ASSUME TypeOK, OneVoteEach, NEW u \in Users \cup {Anonymous},
           NEW action \in {"approve", "reject"}, MayVote(u), AddsVote(records', u, action)
    PROVE  OneVoteEach'
<1>1. u # Anonymous => \A k \in DOMAIN records : records[k].who # u
  BY DEF MayVote, assigneeAlreadyActed, VotesOf
<1>2. /\ records'[Len(records) + 1].who = u
      /\ \A k \in DOMAIN records : k \in DOMAIN records' /\ records'[k] = records[k]
      /\ \A k \in DOMAIN records' :
           k \in DOMAIN records \/ k = Len(records) + 1 \/ records'[k].action = "skipped"
  BY DEF AddsVote
<1> SUFFICES ASSUME NEW j \in DOMAIN records', NEW k \in DOMAIN records',
                    records'[j].who = records'[k].who, records'[j].who # Anonymous,
                    records'[j].action # "skipped", records'[k].action # "skipped"
             PROVE  j = k
  BY DEF OneVoteEach
<1> QED
  BY <1>1, <1>2 DEF OneVoteEach

\* The pendingAssignees of a request, left out or a list.
SentPending == {Nil} \cup {List(l) : l \in PendingLists}
LEMMA SentTyped == ASSUME NEW p \in SentPending PROVE p \in MaybeList
<1>1. CASE p = Nil
  BY <1>1 DEF Nil, MaybeList
<1>2. CASE p # Nil
  <2>1. PICK l \in PendingLists : p = List(l)
    BY <1>2 DEF SentPending
  <2>2. l \in Seq(Users)
    BY ApprovalAssumption DEF ApprovalAssumption
  <2> QED
    BY <2>1, <2>2 DEF List, MaybeList
<1> QED
  BY <1>1, <1>2

\* Every step keeps the types, and nobody's second vote is taken.
LEMMA NextTyped == TypeOK /\ OneVoteEach /\ [Next]_vars => TypeOK' /\ OneVoteEach'
<1> SUFFICES ASSUME TypeOK, OneVoteEach, [Next]_vars PROVE TypeOK' /\ OneVoteEach'
  OBVIOUS
<1>1. ASSUME NEW u \in Users \cup {Anonymous}, Approve(u) PROVE TypeOK' /\ OneVoteEach'
  <2>1. AddsVote(records', u, "approve") /\ MayVote(u)
    BY <1>1, VoteAdds DEF Approve
  <2> QED
    BY <1>1, <2>1, ApproveTyped, VoteOnce
<1>2. ASSUME NEW u \in Users \cup {Anonymous}, Reject(u) PROVE TypeOK' /\ OneVoteEach'
  <2>1. AddsVote(records', u, "reject") /\ MayVote(u)
    BY <1>2, VoteAdds DEF Reject
  <2>2. TypeOK'
    BY <1>2, <2>1 DEF TypeOK, Reject, Close, Nil, MaybeList, AddsVote
  <2> QED
    BY <2>1, <2>2, VoteOnce
<1>3. ASSUME NEW s \in Replacements, NEW p \in SentPending, ReplaceAssignees(s, p)
      PROVE  TypeOK' /\ OneVoteEach'
  <2>1. s \in Seq(Users) /\ p \in MaybeList
    BY ApprovalAssumption, SentTyped
  <2>2. pool' = s /\ pending' \in MaybeList /\ UNCHANGED <<el, status, quota, records, sync>>
    BY <1>3, <2>1, UpdateTyped DEF ReplaceAssignees, UpdateActivityAssignees
  <2>3. excused' \subseteq Users
    <3>1. Members(s) \subseteq Users
      BY <2>1, MembersFacts
    <3> QED
      BY <1>3, <3>1 DEF ReplaceAssignees, TypeOK
  <2> QED
    BY <2>1, <2>2, <2>3 DEF TypeOK, OneVoteEach
<1>4. ASSUME NEW u \in Removable, ListForRemoval(u) PROVE TypeOK' /\ OneVoteEach'
  <2>1. u \in Users
    BY ApprovalAssumption
  <2> QED
    BY <1>4, <2>1, ListedTyped DEF TypeOK, OneVoteEach, ListForRemoval
<1>5. ASSUME ApplyRemoval PROVE TypeOK' /\ OneVoteEach'
  <2>1. /\ sync.assignees \in Seq(Users) /\ sync.pending \in MaybeList
        /\ sync' \in [user : Users \cup {Anonymous}, assignees : Seq(Users), pending : MaybeList]
        /\ UNCHANGED <<el, status, quota, records, excused>>
    BY <1>5 DEF TypeOK, ApplyRemoval, UpdateActivityAssignees, NoSync, Nil, MaybeList
  <2>2. pool' \in Seq(Users) /\ pending' \in MaybeList
    <3>1. CASE UpdateActivityAssignees(sync.assignees, sync.pending)
      BY <2>1, <3>1, UpdateTyped
    <3>2. CASE UNCHANGED <<pool, pending>>
      BY <3>2 DEF TypeOK
    <3> QED
      BY <1>5, <3>1, <3>2 DEF ApplyRemoval
  <2> QED
    BY <2>1, <2>2 DEF TypeOK, OneVoteEach
<1>6. CASE UNCHANGED vars
  BY <1>6 DEF vars, TypeOK, OneVoteEach
<1> QED
  BY <1>1, <1>2, <1>3, <1>4, <1>5, <1>6 DEF Next, SentPending

\* The lists, the records and the quota of an activity keep their types through
\* every sequence of votes and assignee changes.
THEOREM TypeCorrect == Spec => []TypeOK
BY InitTyped, NextTyped, PTL DEF Spec

\* Nobody votes twice on a task, however often assignee changes put them back
\* among the pending (applyApprovalStep: "already acted on this task").
THEOREM NobodyVotesTwice == Spec => []OneVoteEach
BY InitTyped, NextTyped, PTL DEF Spec

-----------------------------------------------------------------------------
(* Everyone approves *)

\* Whoever is assigned to an open `all` task has approved, is pending or was left
\* out by a request; the same of the lists RemoveUserFromActiveTasks is about to
\* apply.
Accounted == ApprovedBy \cup excused
NobodyForgotten ==
    el.mode = "all" =>
        /\ status = "active" => Members(pool) \subseteq Accounted \cup Members(pending.list)
        /\ Members(sync.assignees) \subseteq Accounted \cup Members(sync.pending.list)

AllInv == TypeOK /\ OneVoteEach /\ NobodyForgotten /\ EveryoneApproved

\* An `all` task starts with everyone pending.
LEMMA InitAll == Init => AllInv
<1> SUFFICES ASSUME Init PROVE AllInv
  OBVIOUS
<1>1. TypeOK /\ OneVoteEach
  BY InitTyped
<1>2. el.mode = "all" => pending.list = pool
  BY <1>1, PendingFacts DEF Init, TypeOK
<1>3. Members(sync.assignees) = {}
  BY DEF Init, NoSync, Members
<1> QED
  BY <1>1, <1>2, <1>3 DEF Init, AllInv, NobodyForgotten, EveryoneApproved

\* A vote takes its voter, and only its voter, off the pending.
LEMMA VoteAll ==
    ASSUME AllInv, NEW u \in Users \cup {Anonymous}, NEW action \in {"approve", "reject"},
           MayVote(u), AddsVote(records', u, action),
           action = "approve" => Approve(u),
           action = "reject" => Reject(u)
    PROVE  NobodyForgotten' /\ EveryoneApproved'
<1> SUFFICES ASSUME el.mode = "all" PROVE NobodyForgotten' /\ EveryoneApproved'
  BY DEF NobodyForgotten, EveryoneApproved, Approve, Reject
<1>1. /\ ApprovedBy' = ApprovedBy \cup (IF action = "approve" THEN {u} ELSE {})
      /\ status = "active" /\ UNCHANGED <<el, pool, quota, sync, excused>>
  BY VoteCounts DEF AllInv, MayVote, Approve, Reject
<1>2. CASE action = "reject"
  BY <1>1, <1>2 DEF AllInv, NobodyForgotten, EveryoneApproved, Reject, Close, Accounted
<1>3. CASE action = "approve"
  <2>1. approveAll(u) /\ pending \in MaybeList
    BY <1>3 DEF Approve, AllInv, TypeOK
  <2>2. /\ Members(removeString(pending, u).list) = Members(pending.list) \ {u}
        /\ removeString(pending, u).list = <<>> => Members(pending.list) \ {u} = {}
    <3>1. Members(<<>>) = {}
      BY DEF Members
    <3> QED
      BY <2>1, <3>1, RemoveFacts
  <2>3. \/ status' = "active" /\ pending' = removeString(pending, u)
        \/ status' = "completed" /\ removeString(pending, u).list = <<>>
    BY <1>1, <2>1 DEF approveAll, Close
  <2>4. /\ Members(pool) \subseteq Accounted \cup Members(pending.list)
        /\ Members(sync'.assignees) \subseteq Accounted' \cup Members(sync'.pending.list)
        /\ Accounted' = Accounted \cup {u}
    BY <1>1, <1>3 DEF AllInv, NobodyForgotten, Accounted
  <2>5. status' = "active" => Members(pool') \subseteq Accounted' \cup Members(pending'.list)
    BY <1>1, <2>2, <2>3, <2>4
  <2>6. status' = "completed" => Members(pool') \subseteq Accounted'
    BY <1>1, <2>2, <2>3, <2>4
  <2> QED
    BY <2>4, <2>5, <2>6 DEF NobodyForgotten, EveryoneApproved, Accounted
<1> QED
  BY <1>2, <1>3

\* Every step keeps everyone on the list of an `all` task accounted for.
LEMMA NextAll == AllInv /\ [Next]_vars => AllInv'
<1> SUFFICES ASSUME AllInv, [Next]_vars PROVE AllInv'
  OBVIOUS
<1>0. TypeOK' /\ OneVoteEach'
  BY NextTyped DEF AllInv
<1>1. ASSUME NEW u \in Users \cup {Anonymous}, Approve(u) PROVE AllInv'
  <2>1. AddsVote(records', u, "approve") /\ MayVote(u)
    BY <1>1, VoteAdds DEF Approve, AllInv
  <2> QED
    BY <1>0, <1>1, <2>1, VoteAll DEF AllInv
<1>2. ASSUME NEW u \in Users \cup {Anonymous}, Reject(u) PROVE AllInv'
  <2>1. AddsVote(records', u, "reject") /\ MayVote(u)
    BY <1>2, VoteAdds DEF Reject, AllInv
  <2> QED
    BY <1>0, <1>2, <2>1, VoteAll DEF AllInv
<1>3. ASSUME NEW s \in Replacements, NEW p \in SentPending, ReplaceAssignees(s, p)
      PROVE  AllInv'
  <2>1. s \in Seq(Users) /\ p \in MaybeList /\ p.list \in Seq(Users)
    BY ApprovalAssumption, SentTyped DEF MaybeList
  <2>2. el.mode = "all" => DefaultPending(s) = s
    BY <2>1, PendingFacts DEF DefaultPending
  <2>3. el.mode = "all" => pending'.list = IF p.nil THEN s ELSE p.list
    BY <1>3, <2>1, <2>2, CopiedFacts DEF ReplaceAssignees, UpdateActivityAssignees
  <2>4. /\ pool' = s /\ status = "active" /\ UNCHANGED <<el, status, quota, records, sync>>
        /\ excused \subseteq excused'
        /\ ~p.nil => Members(s) \subseteq ApprovedBy \cup excused' \cup Members(p.list)
    BY <1>3 DEF ReplaceAssignees, UpdateActivityAssignees, MayReplaceBy
  <2>5. ApprovedBy' = ApprovedBy
    BY <2>4 DEF ApprovedBy, Approvals
  <2>6. el.mode = "all" => Members(pool') \subseteq Accounted' \cup Members(pending'.list)
    BY <2>3, <2>4, <2>5 DEF Accounted
  <2> QED
    BY <1>0, <2>4, <2>5, <2>6 DEF AllInv, NobodyForgotten, EveryoneApproved, Accounted
<1>4. ASSUME NEW u \in Removable, ListForRemoval(u) PROVE AllInv'
  <2>1. u \in Users /\ TypeOK
    BY ApprovalAssumption DEF AllInv
  <2>2. /\ Members(sync'.assignees) = Members(pool) \ {u}
        /\ ~pending.nil => Members(pending.list) \ {u} \subseteq Members(sync'.pending.list)
        /\ pending.nil => Members(pool) \ {u} \subseteq Members(sync'.pending.list)
    BY <1>4, <2>1, ListedTyped
  <2>3. status = "active" /\ UNCHANGED <<el, status, pool, pending, quota, records, excused>>
    BY <1>4 DEF ListForRemoval
  <2>4. ApprovedBy' = ApprovedBy
    BY <2>3 DEF ApprovedBy, Approvals
  <2> QED
    BY <1>0, <2>2, <2>3, <2>4 DEF AllInv, NobodyForgotten, EveryoneApproved, Accounted
<1>5. ASSUME ApplyRemoval PROVE AllInv'
  <2>1. UNCHANGED <<el, status, quota, records, excused>> /\ Members(sync'.assignees) = {}
    BY <1>5 DEF ApplyRemoval, UpdateActivityAssignees, NoSync, Members
  <2>2. ApprovedBy' = ApprovedBy
    BY <2>1 DEF ApprovedBy, Approvals
  <2>3. CASE UpdateActivityAssignees(sync.assignees, sync.pending)
    <3>1. sync.assignees \in Seq(Users) /\ sync.pending \in MaybeList /\ sync.pending.list \in Seq(Users)
      BY DEF AllInv, TypeOK, MaybeList
    <3>2. /\ status = "active" /\ pool' = sync.assignees
          /\ pending' = Copied(IF sync.pending.nil THEN DefaultPending(sync.assignees)
                               ELSE sync.pending.list)
      BY <2>3 DEF UpdateActivityAssignees, MayReplaceBy
    <3>3. el.mode = "all" => DefaultPending(sync.assignees) = sync.assignees
      BY <3>1, PendingFacts DEF DefaultPending
    <3>4. el.mode = "all" =>
            pending'.list = IF sync.pending.nil THEN sync.assignees ELSE sync.pending.list
      BY <3>1, <3>2, <3>3, CopiedFacts
    <3> QED
      BY <1>0, <2>1, <2>2, <3>2, <3>4 DEF AllInv, NobodyForgotten, EveryoneApproved, Accounted
  <2>4. CASE UNCHANGED <<pool, pending>>
    BY <1>0, <2>1, <2>2, <2>4 DEF AllInv, NobodyForgotten, EveryoneApproved, Accounted
  <2> QED
    BY <1>5, <2>3, <2>4 DEF ApplyRemoval
<1>6. CASE UNCHANGED vars
  BY <1>0, <1>6 DEF vars, AllInv, NobodyForgotten, EveryoneApproved, Accounted, ApprovedBy, Approvals
<1> QED
  BY <1>1, <1>2, <1>3, <1>4, <1>5, <1>6 DEF Next, SentPending

\* An `all` task completes only when everyone then assigned has approved, even
\* when a removal is applied from lists that votes and replacements have made
\* out of date (RemoveUserFromActiveTasks carries no lock version).  The one
\* exception is named: those whom a request left out by sending its own
\* pendingAssignees, which UpdateActivityAssignees stores unchecked
\* (assignees.go:66-85).
THEOREM AllHaveApproved == Spec => []EveryoneApproved
<1>1. AllInv => EveryoneApproved
  BY DEF AllInv
<1> QED
  BY <1>1, InitAll, NextAll, PTL DEF Spec

-----------------------------------------------------------------------------
(* The quota *)

\* The quota of an `any` task can be met by its list.  ValidateUserTaskApproval
\* checks this of the list in the definition; a list that assigneesVariable
\* resolves to is not checked.
QuotaWithinList ==
    \A e \in ElementConfigs, r \in Resolutions :
        e.mode = "any" /\ RequiredApprovals(e) > 1
            => RequiredApprovals(e) <= Len(resolveTaskAssignees(e, r))

\* A quota of more than one is within the list, so that every voter is named and
\* there are as many of them as approvals; an open task is short of its quota.
Counted ==
    el.mode = "any" =>
        /\ IsFiniteSet(Approvals) /\ IsFiniteSet(ApprovedBy)
        /\ quota > 1 => /\ quota <= Len(pool)
                        /\ Anonymous \notin ApprovedBy
                        /\ Cardinality(ApprovedBy) = Cardinality(Approvals)
        /\ status = "active" => Cardinality(Approvals) < quota

QuotaInv == TypeOK /\ OneVoteEach /\ Counted /\ QuotaMet

\* Nobody has approved at activation.
LEMMA InitCounted == ASSUME QuotaWithinList, Init PROVE QuotaInv
<1>1. TypeOK /\ OneVoteEach
  BY InitTyped
<1>2. Approvals = {} /\ ApprovedBy = {}
  BY DEF Init, Approvals, ApprovedBy
<1>3. el.mode = "any" /\ quota > 1 => quota <= Len(pool)
  BY DEF Init, QuotaWithinList
<1> QED
  BY <1>1, <1>2, <1>3, FS_EmptySet DEF Init, QuotaInv, Counted, QuotaMet, TypeOK

\* An approval adds one to the approvals and, if the quota is more than one, a
\* new name to those who have approved.
LEMMA ApproveCounted ==
    ASSUME QuotaInv, NEW u \in Users \cup {Anonymous}, Approve(u)
    PROVE  Counted' /\ QuotaMet'
<1> SUFFICES ASSUME el.mode = "any" PROVE Counted' /\ QuotaMet'
  BY DEF Counted, QuotaMet, Approve
<1>1. AddsVote(records', u, "approve") /\ MayVote(u) /\ approveAny(u)
      /\ UNCHANGED <<el, pool, quota, sync>> /\ status = "active"
  BY VoteAdds DEF Approve, QuotaInv, MayVote
<1> DEFINE n == Len(records) + 1
<1>2. /\ Approvals' = Approvals \cup {n} /\ n \notin Approvals
      /\ ApprovedBy' = ApprovedBy \cup {u}
  BY <1>1, VoteCounts DEF QuotaInv, Approvals
<1>3. quota \in Nat \ {0} /\ Len(pool) \in Nat
  BY DEF QuotaInv, TypeOK
<1>4. IsFiniteSet(Approvals) /\ IsFiniteSet(ApprovedBy)
  BY DEF QuotaInv, Counted
<1>5. Cardinality(Approvals) \in Nat /\ Cardinality(ApprovedBy) \in Nat
  BY <1>4, FS_CardinalityType
<1> HIDE DEF n
<1>6. /\ IsFiniteSet(Approvals') /\ IsFiniteSet(ApprovedBy')
      /\ Cardinality(Approvals') = Cardinality(Approvals) + 1
      /\ u \notin ApprovedBy => Cardinality(ApprovedBy') = Cardinality(ApprovedBy) + 1
  BY <1>2, <1>4, FS_AddElement
<1>7. quota > 1 => u # Anonymous /\ u \notin ApprovedBy
  <2>1. quota > 1 => u # Anonymous
    BY <1>1, <1>3 DEF QuotaInv, Counted, MayVote
  <2>2. u # Anonymous => u \notin ApprovedBy
    BY <1>1 DEF MayVote, assigneeAlreadyActed, VotesOf, ApprovedBy, Approvals
  <2> QED
    BY <2>1, <2>2
<1>8. \/ status' = "completed" /\ Cardinality(Approvals) + 1 >= quota
      \/ status' = "active" /\ ~(Cardinality(Approvals) + 1 >= quota)
  BY <1>1 DEF approveAny, Close
<1>9. quota > 1 => /\ quota' <= Len(pool')
                   /\ Anonymous \notin ApprovedBy'
                   /\ Cardinality(ApprovedBy') = Cardinality(Approvals')
  BY <1>1, <1>2, <1>6, <1>7 DEF QuotaInv, Counted
<1>10. Counted'
  BY <1>1, <1>3, <1>5, <1>6, <1>8, <1>9 DEF Counted
<1>11. Cardinality(ApprovedBy') >= 1
  <2>1. ApprovedBy' # {} /\ Cardinality(ApprovedBy') \in Nat
    BY <1>2, <1>6, FS_CardinalityType
  <2>2. Cardinality(ApprovedBy') # 0
    BY <1>6, <2>1, FS_EmptySet
  <2> QED
    BY <2>1, <2>2
<1>12. QuotaMet'
  BY <1>1, <1>3, <1>5, <1>6, <1>8, <1>9, <1>11 DEF QuotaMet
<1> QED
  BY <1>10, <1>12

\* Every other step leaves the approvals alone and the list long enough.
LEMMA NextCounted == QuotaInv /\ [Next]_vars => QuotaInv'
<1> SUFFICES ASSUME QuotaInv, [Next]_vars PROVE QuotaInv'
  OBVIOUS
<1>0. TypeOK' /\ OneVoteEach'
  BY NextTyped DEF QuotaInv
<1>1. ASSUME NEW u \in Users \cup {Anonymous}, Approve(u) PROVE QuotaInv'
  BY <1>0, <1>1, ApproveCounted DEF QuotaInv
<1>2. ASSUME NEW u \in Users \cup {Anonymous}, Reject(u) PROVE QuotaInv'
  <2>1. AddsVote(records', u, "reject")
    BY <1>2, VoteAdds DEF QuotaInv
  <2>2. Approvals' = Approvals /\ ApprovedBy' = ApprovedBy
    BY <2>1, VoteCounts DEF QuotaInv
  <2> QED
    BY <1>0, <1>2, <2>2 DEF QuotaInv, Counted, QuotaMet, Reject, Close
<1>3. ASSUME UNCHANGED <<el, status, quota, records>>,
             el.mode = "any" /\ quota > 1 => quota <= Len(pool') \/ pool' = pool
      PROVE  QuotaInv'
  <2>1. Approvals' = Approvals /\ ApprovedBy' = ApprovedBy
    BY <1>3 DEF Approvals, ApprovedBy
  <2> QED
    BY <1>0, <1>3, <2>1 DEF QuotaInv, Counted, QuotaMet
<1>4. ASSUME NEW s \in Replacements, NEW p, ReplaceAssignees(s, p) PROVE QuotaInv'
  BY <1>3, <1>4 DEF ReplaceAssignees, UpdateActivityAssignees, MayReplaceBy
<1>5. ASSUME NEW u \in Removable, ListForRemoval(u) PROVE QuotaInv'
  BY <1>3, <1>5 DEF ListForRemoval
<1>6. ASSUME ApplyRemoval PROVE QuotaInv'
  BY <1>3, <1>6 DEF ApplyRemoval, UpdateActivityAssignees, MayReplaceBy
<1>7. CASE UNCHANGED vars
  BY <1>3, <1>7 DEF vars
<1> QED
  BY <1>1, <1>2, <1>4, <1>5, <1>6, <1>7 DEF Next

\* An `any` task completes only when as many different assignees as its quota
\* asks for have approved, if the quota is within the list at activation.
THEOREM QuotaReached ==
    ASSUME QuotaWithinList PROVE Spec => []QuotaMet
<1>1. Init => QuotaInv
  BY InitCounted
<1>2. QuotaInv => QuotaMet
  BY DEF QuotaInv
<1> QED
  BY <1>1, <1>2, NextCounted, PTL DEF Spec

-----------------------------------------------------------------------------
(* Lists that do not change *)

\* The lists are those of the definition, within the quota and with nobody twice.
FixedLists ==
    /\ Replacements = {} /\ Removable = {} /\ Resolutions \subseteq {<<>>}
    /\ QuotaWithinList
    /\ \A e \in ElementConfigs : \A j, k \in DOMAIN e.assignees :
         e.assignees[j] = e.assignees[k] => j = k

\* A `sequential` task is at its k-th assignee: those before have voted.
TurnOf(k) ==
    /\ k \in DOMAIN pool /\ pending = List(<<pool[k]>>)
    /\ \A j \in DOMAIN pool : pool[j] \in Acted <=> j < k

\* Only approvals are recorded while a task is open.
OpenMeansApproved ==
    status = "active" => \A k \in DOMAIN records : records[k].action = "approve"

\* Who is pending on an open task: those who have not approved, or the one
\* whose turn it is.
PendingExact ==
    /\ status # "active" \/ pool = <<>> => pending = Nil
    /\ status = "active" /\ pool # <<>> =>
         /\ ~pending.nil
         /\ el.mode # "sequential" => Members(pending.list) = Members(pool) \ ApprovedBy
         /\ el.mode = "all" => pending.list # <<>>
         /\ el.mode = "sequential" => \E k \in DOMAIN pool : TurnOf(k)

FixedInv ==
    /\ QuotaInv
    /\ pool = el.assignees /\ sync = NoSync
    /\ OpenMeansApproved
    /\ PendingExact
    /\ VotesInOrder
    /\ SequenceCompleted

\* While only approvals are recorded, whoever has voted has approved.
LEMMA ActedApproved ==
    ASSUME \A k \in DOMAIN records : records[k].action = "approve"
    PROVE  /\ Acted = ApprovedBy \ {Anonymous}
           /\ \A u : u \notin ApprovedBy => ~assigneeAlreadyActed(u)
<1>1. /\ Approvals = DOMAIN records
      /\ {k \in DOMAIN records : records[k].action # "skipped"} = DOMAIN records
  BY DEF Approvals
<1> QED
  BY <1>1 DEF Acted, ApprovedBy, assigneeAlreadyActed, VotesOf

\* At activation everyone, or the head of the sequence, is pending.
LEMMA InitFixed == ASSUME FixedLists, Init PROVE FixedInv
<1>1. QuotaInv
  BY InitCounted DEF FixedLists
<1>2. pool = el.assignees /\ sync = NoSync /\ status = "active" /\ records = <<>>
  BY DEF Init, FixedLists, resolveTaskAssignees
<1>3. Approvals = {} /\ ApprovedBy = {} /\ Acted = {}
  BY <1>2 DEF Approvals, ApprovedBy, Acted
<1>4. pool \in Seq(Users) /\ pending = pendingForMode(el.mode, pool)
  BY <1>1 DEF QuotaInv, TypeOK, Init
<1>5. pool = <<>> => pending = Nil
  BY <1>4 DEF pendingForMode, Copied
<1>6. pool # <<>> => ~pending.nil /\ (el.mode # "sequential" => pending.list = pool)
  BY <1>4, PendingFacts
<1>7. pool # <<>> /\ el.mode = "sequential" => TurnOf(1)
  <2>1. pool # <<>> => 1 \in DOMAIN pool /\ \A j \in DOMAIN pool : ~(j < 1)
    BY <1>4
  <2> QED
    BY <1>3, <1>4, <2>1, PendingFacts DEF TurnOf
<1>8. pool # <<>> => 1 \in DOMAIN pool
  BY <1>4
<1>9. PendingExact
  BY <1>2, <1>3, <1>5, <1>6, <1>7, <1>8 DEF PendingExact
<1> QED
  BY <1>1, <1>2, <1>3, <1>9
     DEF FixedInv, OpenMeansApproved, VotesInOrder, SequenceCompleted

\* What holds whenever a vote is cast on lists that do not change.
LEMMA VoteOpens ==
    ASSUME FixedLists, FixedInv, NEW u \in Users \cup {Anonymous}, MayVote(u)
    PROVE  /\ status = "active" /\ pool \in Seq(Users) /\ pending \in MaybeList
           /\ Acted = ApprovedBy \ {Anonymous}
           /\ \A j, k \in DOMAIN pool : pool[j] = pool[k] => j = k
           /\ Anonymous \notin Members(pool)
           /\ u # Anonymous => u \in Users /\ pool # <<>>
           /\ u = Anonymous => Len(pool) <= 1
<1>1. status = "active" /\ pool \in Seq(Users) /\ pending \in MaybeList /\ el \in ElementConfigs
      /\ pool = el.assignees
  BY DEF FixedInv, QuotaInv, TypeOK, MayVote
<1>2. Acted = ApprovedBy \ {Anonymous}
  BY <1>1, ActedApproved DEF FixedInv, OpenMeansApproved
<1>3. Anonymous \notin Members(pool)
  BY <1>1, MembersFacts, ApprovalAssumption
<1>4. u # Anonymous => pool # <<>>
  <2>1. pool = <<>> => taskPendingAssignees = <<>>
    BY <1>1 DEF FixedInv, PendingExact, taskPendingAssignees, Nil
  <2>2. Members(<<>>) = {}
    BY DEF Members
  <2> QED
    BY <2>1, <2>2 DEF MayVote, assigneeCanAct
<1>5. \A j, k \in DOMAIN pool : pool[j] = pool[k] => j = k
  BY <1>1 DEF FixedLists
<1> QED
  BY <1>1, <1>2, <1>3, <1>4, <1>5 DEF MayVote

\* Whoever may vote on a `sequential` task by name is the one whose turn it is.
LEMMA VoterHasTurn ==
    ASSUME FixedLists, FixedInv, el.mode = "sequential", pool # <<>>,
           NEW u \in Users \cup {Anonymous}, MayVote(u)
    PROVE  \E k \in DOMAIN pool : TurnOf(k) /\ (u # Anonymous => u = pool[k])
<1>1. PICK k \in DOMAIN pool : TurnOf(k)
  BY VoteOpens DEF FixedInv, PendingExact
<1>2. taskPendingAssignees = <<pool[k]>>
  BY <1>1 DEF TurnOf, List, taskPendingAssignees
<1>3. Members(<<pool[k]>>) = {pool[k]}
  BY DEF Members
<1> QED
  BY <1>1, <1>2, <1>3 DEF MayVote, assigneeCanAct

\* An approval of a `sequential` task passes the turn on, or completes the task
\* when nobody is left.
LEMMA ApproveSequence ==
    ASSUME FixedLists, FixedInv, el.mode = "sequential", NEW u \in Users \cup {Anonymous}, Approve(u)
    PROVE  PendingExact' /\ VotesInOrder' /\ SequenceCompleted'
<1>1. MayVote(u) /\ approveSequential(u) /\ UNCHANGED <<el, pool, quota, sync>>
  BY DEF Approve
<1>2. /\ status = "active" /\ pool \in Seq(Users)
      /\ Anonymous \notin Members(pool)
      /\ \A j, k \in DOMAIN pool : pool[j] = pool[k] => j = k
      /\ u # Anonymous => pool # <<>>
      /\ u = Anonymous => Len(pool) <= 1
      /\ Acted = ApprovedBy \ {Anonymous}
  BY <1>1, VoteOpens
<1>3. AddsVote(records', u, "approve")
  BY VoteAdds DEF FixedInv, QuotaInv
<1>4. Acted' = Acted \cup ({u} \ {Anonymous}) /\ ApprovedBy' = ApprovedBy \cup {u}
  BY <1>3, VoteCounts DEF FixedInv, QuotaInv
<1> DEFINE i == IndexOf(pool, u)
<1>5. /\ i \in 0..Len(pool)
      /\ u \in Members(pool) => i \in DOMAIN pool /\ pool[i] = u
      /\ u \notin Members(pool) => i = 0
  BY <1>2, IndexFacts
<1>6. pool = el.assignees
  BY DEF FixedInv
<1>7. \/ i >= Len(pool) /\ status' = "completed" /\ pending' = Nil
      \/ i < Len(pool) /\ status' = "active" /\ pending' = List(<<pool[i+1]>>)
  BY <1>1, <1>2, <1>5, <1>6 DEF approveSequential, Close
<1> HIDE DEF i
<1>8. CASE pool = <<>>
  <2>1. DOMAIN pool = {} /\ Len(pool) = 0 /\ Members(pool) = {}
    BY <1>8 DEF Members
  <2>2. status' = "completed" /\ pending' = Nil
    BY <1>5, <1>7, <2>1
  <2> QED
    BY <1>1, <2>1, <2>2 DEF PendingExact, VotesInOrder, SequenceCompleted
<1>9. CASE pool # <<>> /\ u # Anonymous
  <2>1. PICK k \in DOMAIN pool : TurnOf(k) /\ u = pool[k]
    BY <1>1, <1>9, VoterHasTurn
  <2>2. i = k /\ DOMAIN pool = 1..Len(pool)
    BY <1>2, <1>5, <2>1 DEF Members
  <2>3. \A j \in DOMAIN pool : pool[j] \in Acted' <=> j < k + 1
    BY <1>2, <1>4, <1>9, <2>1, <2>2 DEF TurnOf
  <2>4. VotesInOrder'
    BY <1>1, <2>2, <2>3 DEF VotesInOrder
  <2>5. CASE status' = "completed"
    <3>1. k = Len(pool) /\ pending' = Nil
      BY <1>7, <2>2, <2>5
    <3>2. Members(pool) \subseteq Acted'
      BY <2>2, <2>3, <3>1 DEF Members
    <3>3. Members(pool) \subseteq ApprovedBy'
      BY <1>2, <1>4, <3>2
    <3> QED
      BY <1>1, <2>4, <2>5, <3>1, <3>3 DEF PendingExact, SequenceCompleted
  <2>6. CASE status' = "active"
    <3>1. k + 1 \in DOMAIN pool /\ pending' = List(<<pool[k+1]>>) /\ ~pending'.nil
      BY <1>7, <2>2, <2>6 DEF List
    <3>2. TurnOf(k+1)'
      BY <1>1, <2>3, <3>1 DEF TurnOf
    <3> QED
      BY <1>1, <1>9, <2>4, <2>6, <3>1, <3>2 DEF PendingExact, SequenceCompleted
  <2> QED
    BY <1>7, <2>5, <2>6
<1>10. CASE pool # <<>> /\ u = Anonymous
  <2>1. PICK k \in DOMAIN pool : TurnOf(k)
    BY <1>1, <1>10, VoterHasTurn
  <2>2. Len(pool) = 1 /\ DOMAIN pool = 1..1 /\ k = 1 /\ i = 0
    <3>0. Len(pool) <= 1 /\ pool # <<>> /\ pool \in Seq(Users)
      BY <1>2, <1>10
    <3>1. Len(pool) = 1
      <4> DEFINE n == Len(pool)
      <4>1. n \in Nat /\ n # 0 /\ n <= 1
        BY <3>0
      <4> HIDE DEF n
      <4>2. n = 1
        BY <4>1
      <4> QED
        BY <4>2 DEF n
    <3>2. DOMAIN pool = 1..1
      <4>1. DOMAIN pool = 1..Len(pool)
        BY <3>0
      <4> QED
        BY <3>1, <4>1
    <3>3. i = 0
      BY <1>2, <1>5, <1>10
    <3> QED
      BY <3>1, <3>2, <3>3
  <2>3. status' = "active" /\ pending' = List(<<pool[1]>>) /\ Acted' = Acted
    BY <1>4, <1>7, <1>10, <2>2
  <2>4. TurnOf(1)' /\ ~pending'.nil
    BY <1>1, <2>1, <2>2, <2>3 DEF TurnOf, List
  <2>5. VotesInOrder'
    BY <1>1, <2>2 DEF VotesInOrder
  <2> QED
    BY <1>1, <1>10, <2>2, <2>3, <2>4, <2>5 DEF PendingExact, SequenceCompleted
<1> QED
  BY <1>8, <1>9, <1>10

\* An approval of a task in another mode takes its voter off the pending, and
\* leaves somebody pending or completes the task.
LEMMA ApprovePool ==
    ASSUME FixedLists, FixedInv, el.mode # "sequential", NEW u \in Users \cup {Anonymous}, Approve(u)
    PROVE  PendingExact'
<1>1. MayVote(u) /\ (approveAny(u) \/ approveAll(u)) /\ UNCHANGED <<el, pool, quota, sync>>
      /\ (el.mode = "all" => approveAll(u)) /\ (el.mode = "any" => approveAny(u))
  BY DEF Approve
<1>2. /\ status = "active" /\ pool \in Seq(Users) /\ pending \in MaybeList
      /\ Anonymous \notin Members(pool)
  BY <1>1, VoteOpens
<1>3. AddsVote(records', u, "approve")
  BY VoteAdds DEF FixedInv, QuotaInv
<1>4. ApprovedBy' = ApprovedBy \cup {u}
  BY <1>3, VoteCounts DEF FixedInv, QuotaInv
<1>5. /\ removeString(pending, u).nil = pending.nil
      /\ Members(removeString(pending, u).list) = Members(pending.list) \ {u}
  BY <1>2, RemoveFacts
<1>6. \/ status' = "completed" /\ pending' = Nil
      \/ /\ status' = "active" /\ pending' = removeString(pending, u)
         /\ el.mode = "all" => removeString(pending, u).list # <<>>
  BY <1>1, <1>2 DEF approveAny, approveAll, Close, Approve
<1>7. CASE status' = "completed"
  BY <1>6, <1>7 DEF PendingExact
<1>8. CASE status' = "active" /\ pool # <<>>
  <2>1. ~pending.nil /\ Members(pending.list) = Members(pool) \ ApprovedBy
    BY <1>2, <1>8 DEF FixedInv, PendingExact
  <2>2. /\ pending' = removeString(pending, u)
        /\ el.mode = "all" => removeString(pending, u).list # <<>>
    BY <1>6, <1>8
  <2>3. ~pending'.nil /\ Members(pending'.list) = Members(pool') \ ApprovedBy'
    BY <1>1, <1>4, <1>5, <2>1, <2>2
  <2> QED
    BY <1>1, <1>8, <2>2, <2>3 DEF PendingExact
<1>9. CASE status' = "active" /\ pool = <<>>
  <2>1. removeString(pending, u).list = <<>>
    <3>1. pending = Nil /\ removeString(pending, u) \in MaybeList
      BY <1>2, <1>9, RemoveFacts DEF FixedInv, PendingExact
    <3>2. Members(pending.list) = {}
      BY <3>1 DEF Nil, Members
    <3>3. Members(removeString(pending, u).list) = {} /\ removeString(pending, u).list \in Seq(Users)
      BY <1>5, <3>1, <3>2 DEF MaybeList
    <3> QED
      BY <3>3, MembersFacts
  <2>2. el.mode = "any"
    BY <1>6, <1>9, <2>1, ApprovalAssumption DEF FixedInv, QuotaInv, TypeOK
  <2>3. ~(quota > 1) /\ quota \in Nat \ {0}
    BY <1>2, <1>9, <2>2 DEF FixedInv, QuotaInv, Counted, TypeOK
  <2>4. IsFiniteSet(Approvals)
    BY <2>2 DEF FixedInv, QuotaInv, Counted
  <2>5. Cardinality(Approvals) + 1 >= quota
    BY <2>3, <2>4, FS_CardinalityType
  <2> QED
    BY <1>1, <1>9, <2>2, <2>5 DEF approveAny, Close
<1> QED
  BY <1>6, <1>7, <1>8, <1>9

\* A rejection closes the task; the sequence is not disturbed by its last vote.
LEMMA RejectFixed ==
    ASSUME FixedLists, FixedInv, NEW u \in Users \cup {Anonymous}, Reject(u)
    PROVE  FixedInv'
<1>0. QuotaInv'
  BY NextCounted DEF FixedInv, Next
<1>1. /\ MayVote(u) /\ status' = "rejected" /\ pending' = Nil
      /\ UNCHANGED <<el, pool, quota, sync>>
  BY DEF Reject, Close
<1>2. AddsVote(records', u, "reject")
  BY VoteAdds DEF FixedInv, QuotaInv
<1>3. Acted' = Acted \cup ({u} \ {Anonymous})
  BY <1>2, VoteCounts DEF FixedInv, QuotaInv
<1>4. VotesInOrder'
  <2> SUFFICES ASSUME el.mode = "sequential", NEW j \in DOMAIN pool, NEW k \in DOMAIN pool,
                      j < k, pool[k] \in Acted'
               PROVE  pool[j] \in Acted'
    BY <1>1 DEF VotesInOrder
  <2>1. CASE pool[k] \in Acted
    BY <1>3, <2>1 DEF FixedInv, VotesInOrder
  <2>2. CASE pool[k] \notin Acted
    <3>1. u # Anonymous /\ pool[k] = u
      BY <1>3, <2>2
    <3>2. PICK m \in DOMAIN pool : TurnOf(m) /\ u = pool[m]
      BY <1>1, <3>1, VoterHasTurn DEF FixedInv, QuotaInv, TypeOK
    <3>3. m = k
      BY <1>1, <3>1, <3>2, VoteOpens
    <3> QED
      BY <1>3, <3>2, <3>3 DEF TurnOf
  <2> QED
    BY <2>1, <2>2
<1> QED
  BY <1>0, <1>1, <1>4 DEF FixedInv, OpenMeansApproved, PendingExact, SequenceCompleted

\* An approval of any task keeps the invariant.
LEMMA ApproveFixed ==
    ASSUME FixedLists, FixedInv, NEW u \in Users \cup {Anonymous}, Approve(u)
    PROVE  FixedInv'
<1>0. QuotaInv'
  BY NextCounted DEF FixedInv, Next
<1>1. pool' = el'.assignees /\ sync' = NoSync
  BY DEF FixedInv, Approve
<1>2. OpenMeansApproved'
  <2> SUFFICES ASSUME status' = "active", NEW k \in DOMAIN records'
               PROVE  records'[k].action = "approve"
    BY DEF OpenMeansApproved
  <2>1. records' = Recorded(u, "approve") /\ status = "active"
    BY DEF Approve, MayVote, approveAny, approveAll, approveSequential, Close
  <2>2. records \in Seq(Record)
    BY DEF FixedInv, QuotaInv, TypeOK
  <2> QED
    BY <2>1, <2>2 DEF FixedInv, OpenMeansApproved, Recorded
<1>3. PendingExact' /\ VotesInOrder' /\ SequenceCompleted'
  <2>1. CASE el.mode = "sequential"
    BY <2>1, ApproveSequence
  <2>2. CASE el.mode # "sequential"
    BY <2>2, ApprovePool DEF VotesInOrder, SequenceCompleted, Approve
  <2> QED
    BY <2>1, <2>2
<1> QED
  BY <1>0, <1>1, <1>2, <1>3 DEF FixedInv

\* Every step keeps the invariant: the lists change with votes alone.
LEMMA NextFixed == ASSUME FixedLists, FixedInv, [Next]_vars PROVE FixedInv'
<1>1. ASSUME NEW u \in Users \cup {Anonymous}, Approve(u) PROVE FixedInv'
  BY <1>1, ApproveFixed
<1>2. ASSUME NEW u \in Users \cup {Anonymous}, Reject(u) PROVE FixedInv'
  BY <1>2, RejectFixed
<1>3. ~ApplyRemoval
  BY DEF FixedInv, ApplyRemoval
<1>4. CASE UNCHANGED vars
  <2>1. QuotaInv'
    BY NextCounted DEF FixedInv
  <2> QED
    BY <1>4, <2>1 DEF vars, FixedInv, OpenMeansApproved, PendingExact, TurnOf, VotesInOrder,
       SequenceCompleted, Acted, ApprovedBy, Approvals
<1> QED
  BY <1>1, <1>2, <1>3, <1>4 DEF Next, FixedLists

\* Nobody who has voted is pending.
LEMMA FixedRemaining == ASSUME FixedLists, FixedInv PROVE PendingAreRemaining
<1>1. CASE status # "active" \/ pool = <<>>
  BY <1>1 DEF FixedInv, PendingExact, PendingAreRemaining, Nil, Members
<1>2. CASE status = "active" /\ pool # <<>> /\ el.mode # "sequential"
  <2>1. Acted = ApprovedBy \ {Anonymous}
    BY <1>2, ActedApproved DEF FixedInv, OpenMeansApproved
  <2> QED
    BY <1>2, <2>1 DEF FixedInv, PendingExact, PendingAreRemaining
<1>3. CASE status = "active" /\ pool # <<>> /\ el.mode = "sequential"
  <2>1. PICK k \in DOMAIN pool : TurnOf(k)
    BY <1>3 DEF FixedInv, PendingExact
  <2>2. Members(<<pool[k]>>) = {pool[k]}
    BY DEF Members
  <2>3. k \in Nat
    BY DEF FixedInv, QuotaInv, TypeOK
  <2> QED
    BY <2>1, <2>2, <2>3 DEF TurnOf, List, PendingAreRemaining
<1> QED
  BY <1>1, <1>2, <1>3

\* A list with nobody twice has as many members as entries.
LEMMA DistinctCounted ==
    ASSUME NEW U, NEW s \in Seq(U), \A j, k \in DOMAIN s : s[j] = s[k] => j = k
    PROVE  IsFiniteSet(Members(s)) /\ Cardinality(Members(s)) = Len(s)
<1>1. DOMAIN s = 1..Len(s) /\ Len(s) \in Nat
  OBVIOUS
<1>2. s \in Bijection(1..Len(s), Members(s))
  <2>1. s \in [1..Len(s) -> Members(s)]
    BY <1>1 DEF Members
  <2>2. \A t \in Members(s) : \E k \in 1..Len(s) : s[k] = t
    BY <1>1 DEF Members
  <2>3. \A j, k \in 1..Len(s) : s[j] = s[k] => j = k
    BY <1>1
  <2> QED
    BY <2>1, <2>2, <2>3 DEF Bijection, Injection, Surjection, IsInjective
<1>3. ExistsBijection(1..Len(s), Members(s))
  BY <1>2 DEF ExistsBijection
<1>4. IsFiniteSet(1..Len(s)) /\ Cardinality(1..Len(s)) = Len(s)
  BY <1>1, FS_Interval
<1> QED
  BY <1>3, <1>4, FS_Bijection

\* Somebody who has not voted is pending on an open task: of an `any` task
\* because fewer have approved than its quota, which is within its list.
LEMMA FixedInbox == ASSUME FixedLists, FixedInv PROVE InSomeInbox
<1> SUFFICES ASSUME status = "active", pool # <<>>
             PROVE  \E u \in Members(taskPendingAssignees) : ~assigneeAlreadyActed(u)
  BY DEF InSomeInbox
<1>1. /\ pool \in Seq(Users) /\ pending \in MaybeList /\ taskPendingAssignees = pending.list
      /\ pending.list \in Seq(Users)
  BY DEF FixedInv, QuotaInv, TypeOK, PendingExact, taskPendingAssignees, MaybeList
<1>2. Acted = ApprovedBy \ {Anonymous} /\ \A u : u \notin ApprovedBy => ~assigneeAlreadyActed(u)
  BY ActedApproved DEF FixedInv, OpenMeansApproved
<1>3. CASE el.mode = "sequential"
  <2>1. PICK k \in DOMAIN pool : TurnOf(k)
    BY <1>3 DEF FixedInv, PendingExact
  <2>2. k \in Nat /\ pool[k] \in Users /\ pool[k] \notin Acted
    BY <1>1, <2>1 DEF TurnOf
  <2>3. pool[k] \in Members(taskPendingAssignees)
    BY <1>1, <2>1 DEF TurnOf, List, Members
  <2> QED
    BY <1>2, <2>2, <2>3, ApprovalAssumption
<1>4. CASE el.mode = "all"
  <2>1. pending.list # <<>> /\ Members(pending.list) = Members(pool) \ ApprovedBy
    BY <1>4 DEF FixedInv, PendingExact
  <2>2. Members(pending.list) # {}
    BY <1>1, <2>1, MembersFacts
  <2> QED
    BY <1>1, <1>2, <2>1, <2>2
<1>5. CASE el.mode = "any"
  <2>1. /\ Members(pending.list) = Members(pool) \ ApprovedBy
        /\ IsFiniteSet(Approvals) /\ IsFiniteSet(ApprovedBy)
        /\ Cardinality(Approvals) < quota /\ quota \in Nat \ {0}
        /\ quota > 1 => quota <= Len(pool) /\ Cardinality(ApprovedBy) = Cardinality(Approvals)
    BY <1>5 DEF FixedInv, QuotaInv, Counted, PendingExact, TypeOK
  <2>2. \A j, k \in DOMAIN pool : pool[j] = pool[k] => j = k
    BY DEF FixedLists, FixedInv, QuotaInv, TypeOK
  <2>3. IsFiniteSet(Members(pool)) /\ Cardinality(Members(pool)) = Len(pool)
    BY <1>1, <2>2, DistinctCounted
  <2>4. ASSUME Members(pool) \subseteq ApprovedBy PROVE FALSE
    <3>1. Cardinality(Members(pool)) <= Cardinality(ApprovedBy)
      BY <2>1, <2>4, FS_Subset
    <3>2. Cardinality(ApprovedBy) \in Nat /\ Cardinality(Approvals) \in Nat /\ Len(pool) \in Nat
      BY <1>1, <2>1, FS_CardinalityType
    <3>3. CASE quota > 1
      BY <2>1, <2>3, <3>1, <3>2, <3>3
    <3>4. CASE ~(quota > 1)
      <4>1. Cardinality(Approvals) = 0
        BY <2>1, <3>2, <3>4
      <4>2. Approvals = {}
        BY <2>1, <4>1, FS_EmptySet
      <4>3. ApprovedBy = {}
        BY <4>2 DEF ApprovedBy
      <4> QED
        BY <1>1, <2>4, <4>3, MembersFacts
    <3> QED
      BY <3>3, <3>4
  <2> QED
    BY <1>1, <1>2, <2>1, <2>4
<1> QED
  BY <1>3, <1>4, <1>5, ApprovalAssumption DEF FixedInv, QuotaInv, TypeOK

\* What the four theorems below rest on.
LEMMA FixedAlways == ASSUME FixedLists PROVE Spec => []FixedInv
<1>1. Init => FixedInv
  BY InitFixed
<1>2. FixedInv /\ [Next]_vars => FixedInv'
  BY NextFixed
<1> QED
  BY <1>1, <1>2, PTL DEF Spec

\* On lists that do not change, a `sequential` task completes only when everyone
\* assigned has approved.
THEOREM SequenceApproved == ASSUME FixedLists PROVE Spec => []SequenceCompleted
<1>1. FixedInv => SequenceCompleted
  BY DEF FixedInv
<1> QED
  BY <1>1, FixedAlways, PTL

\* On such lists the votes on a `sequential` task are cast in list order.
THEOREM SequenceOrdered == ASSUME FixedLists PROVE Spec => []VotesInOrder
<1>1. FixedInv => VotesInOrder
  BY DEF FixedInv
<1> QED
  BY <1>1, FixedAlways, PTL

\* On such lists nobody who has voted is still pending, in any mode.
THEOREM PendingHaveNotVoted == ASSUME FixedLists PROVE Spec => []PendingAreRemaining
<1>1. FixedInv => PendingAreRemaining
  BY FixedRemaining
<1> QED
  BY <1>1, FixedAlways, PTL

\* On such lists an open task is in the inbox of somebody who has not voted, so
\* it can always be acted on.
THEOREM AlwaysInAnInbox == ASSUME FixedLists PROVE Spec => []InSomeInbox
<1>1. FixedInv => InSomeInbox
  BY FixedInbox
<1> QED
  BY <1>1, FixedAlways, PTL
=============================================================================
