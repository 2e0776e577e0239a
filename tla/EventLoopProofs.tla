--------------------------- MODULE EventLoopProofs ---------------------------
(***************************************************************************)
(* Proofs about EventLoop: the list of rules and the vector of pollfds     *)
(* that wait_next_event() walks in step, for any table of rules, any       *)
(* number of descriptors and any callbacks.                                *)
(***************************************************************************)
EXTENDS EventLoop, SliceLemmas

(* The list of rules: each rule that was added is in it once, or has been  *)
(* cancelled once.                                                         *)
ListInv ==
    /\ added \in Nat /\ added <= Len(RuleTable)
    /\ rules \in Seq(1..added)
    /\ \A m, n \in 1..Len(rules) : rules[m] = rules[n] => m = n
    /\ cancels \in [RuleId -> Nat]
    /\ \A r \in RuleId : r > added => cancels[r] = 0
    /\ CancelledOnce

(* A pollfd: poll() reports nothing but what was asked for, a hangup and   *)
(* an error.                                                               *)
PollEntry ==
    {e \in [rule : RuleId, events : SUBSET {"In", "Out"},
            revents : SUBSET {"In", "Out", "Hup", "Err"}] :
        e.revents \subseteq e.events \cup {"Hup", "Err"}}

(* The vector holds the entries of the first k rules, with no results yet. *)
EntriesUpTo(k) ==
    /\ Len(pollfds) = k
    /\ \A n \in 1..k : pollfds[n].rule = rules[n] /\ pollfds[n].revents = {}

(* The two loops of wait_next_event() walk the list and the vector in step. *)
WalkInv ==
    /\ pc \in {"idle", "setup", "poll", "dispatch", "stopped"}
    /\ it \in Nat \ {0} /\ idx \in Nat \ {0}
    /\ pollfds \in Seq(PollEntry)
    /\ pc = "setup" => it <= Len(rules) + 1 /\ EntriesUpTo(it - 1)
    /\ pc = "poll" => EntriesUpTo(Len(rules))
    /\ pc = "dispatch" => it <= Len(rules) + 1
    /\ Aligned

Triggered(n) == pollfds[n].revents \cap pollfds[n].events # {}

(* What the second loop has done about the entries before entry k. *)
HandledBefore(k) ==
    /\ ran = {pollfds[n].rule : n \in {m \in 1..(k - 1) : Triggered(m)}}
    /\ \A n \in 1..(k - 1) :
        /\ "Err" \notin pollfds[n].revents
        /\ pollfds[n].events # {} /\ pollfds[n].revents = {"Hup"} => pollfds[n].rule \in gone

(* poll() gives the second loop a reason to be run. *)
Reason == pollFailed \/ \E n \in 1..Len(pollfds) : pollfds[n].revents # {}

OutcomeInv ==
    /\ pc \in {"setup", "poll"} => ran = {}
    /\ pc \in {"setup", "poll", "dispatch"} => result # "Success"
    /\ pc = "dispatch" => HandledBefore(idx) /\ Reason
    /\ result = "Success" => HandledBefore(Len(pollfds) + 1) /\ Reason

(* What poll() found out about a rule still holds, or there is a reason. *)
Timely(r) == Ready(r) \/ closed[Fd(r)] \/ hup[Fd(r)] \/ \E q \in ran : Fd(q) = Fd(r)

TimelyInv ==
    /\ closed \in [FD -> BOOLEAN]
    /\ rd \in [FD -> {"none", "data", "end"}]
    /\ wr \in [FD -> BOOLEAN] /\ hup \in [FD -> BOOLEAN]
    /\ pc = "dispatch" => \A n \in idx..Len(pollfds) : Triggered(n) => Timely(pollfds[n].rule)

Inv == ListInv /\ WalkInv /\ OutcomeInv /\ TimelyInv

-----------------------------------------------------------------------------
(* std::list::erase() as the model has it: the elements behind move up. *)
LEMMA Erase ==
    ASSUME NEW S, NEW s \in Seq(S), NEW i \in 1..Len(s)
    PROVE  LET t == SubSeq(s, 1, i - 1) \o SubSeq(s, i + 1, Len(s))
           IN  /\ t \in Seq(S)
               /\ Len(t) = Len(s) - 1
               /\ \A n \in 1..(Len(s) - 1) : t[n] = IF n < i THEN s[n] ELSE s[n + 1]
<1>1. Len(s) \in Nat /\ i \in Int
  BY LenProperties
<1> DEFINE a == SubSeq(s, 1, i - 1)
           b == SubSeq(s, i + 1, Len(s))
<1>2. a \in Seq(S) /\ Len(a) = i - 1 /\ \A n \in 1..(i - 1) : a[n] = s[n]
  <2>1. 1 \in 1..(Len(s) + 1) /\ i - 1 \in (1 - 1)..Len(s) /\ (i - 1) - 1 + 1 = i - 1
    BY <1>1
  <2>2. \A n \in 1..(i - 1) : 1 + n - 1 = n
    BY <1>1
  <2>3. QED
    BY <2>1, <2>2, Slice
<1>3. b \in Seq(S) /\ Len(b) = Len(s) - i /\ \A n \in 1..(Len(s) - i) : b[n] = s[i + n]
  <2>1. /\ i + 1 \in 1..(Len(s) + 1) /\ Len(s) \in ((i + 1) - 1)..Len(s)
        /\ Len(s) - (i + 1) + 1 = Len(s) - i
    BY <1>1
  <2>2. /\ b \in Seq(S) /\ Len(b) = Len(s) - (i + 1) + 1
        /\ \A n \in 1..(Len(s) - (i + 1) + 1) : b[n] = s[(i + 1) + n - 1]
    BY ONLY <2>1, Slice, s \in Seq(S), Zenon
  <2>3. \A n \in 1..(Len(s) - i) : (i + 1) + n - 1 = i + n
    BY <1>1
  <2>4. QED
    BY <2>1, <2>2, <2>3, Zenon
<1> HIDE DEF a, b
<1>4. /\ a \o b \in Seq(S) /\ Len(a \o b) = Len(a) + Len(b)
      /\ \A n \in 1..(Len(a) + Len(b)) : (a \o b)[n] =
            IF n <= Len(a) THEN a[n] ELSE b[n - Len(a)]
  BY <1>2, <1>3, ConcatProperties, Zenon
<1>5. Len(a) + Len(b) = Len(s) - 1
  BY <1>1, <1>2, <1>3
<1>6. ASSUME NEW n \in 1..(Len(s) - 1)
      PROVE  (a \o b)[n] = IF n < i THEN s[n] ELSE s[n + 1]
  <2>1. CASE n < i
    BY <1>1, <1>2, <1>4, <1>5, <2>1
  <2>2. CASE ~(n < i)
    <3>1. n - Len(a) \in 1..(Len(s) - i) /\ i + (n - Len(a)) = n + 1 /\ ~(n <= Len(a))
      BY <1>1, <1>2, <2>2
    <3>2. QED
      BY <1>3, <1>4, <1>5, <2>2, <3>1, Zenon
  <2>3. QED
    BY <2>1, <2>2, Zenon
<1>7. a \o b \in Seq(S) /\ Len(a \o b) = Len(s) - 1
  BY <1>4, <1>5
<1>8. QED
  BY <1>6, <1>7, Zenon DEF a, b

(* Typing facts about the list. *)
LEMMA ListTyped ==
    ASSUME ListInv
    PROVE  /\ Len(rules) \in Nat /\ DOMAIN rules = 1..Len(rules)
           /\ \A n \in 1..Len(rules) : rules[n] \in 1..added
           /\ 1..added \subseteq RuleId /\ Len(RuleTable) \in Nat
           /\ rules \in Seq(RuleId)
<1>1. rules \in Seq(1..added)
  BY DEF ListInv
<1>2. Len(RuleTable) \in Nat
  BY RuleAssumption, LenProperties
<1>3. 1..added \subseteq RuleId
  BY <1>2 DEF ListInv, RuleId
<1>4. Len(rules) \in Nat /\ DOMAIN rules = 1..Len(rules) /\ rules \in [1..Len(rules) -> 1..added]
  BY <1>1, LenProperties, Zenon
<1>5. rules \in Seq(RuleId)
  <2>1. rules \in [1..Len(rules) -> RuleId]
    BY <1>3, <1>4
  <2>2. QED
    BY <1>4, <2>1, SeqDef
<1>6. QED
  BY <1>2, <1>3, <1>4, <1>5

(* this_rule.cancel() and erase(it): the rule leaves the list and counts   *)
(* as cancelled, and no other rule is touched.                             *)
LEMMA CancelKeepsList ==
    ASSUME ListInv, it \in 1..Len(rules), CancelHere, UNCHANGED added
    PROVE  /\ ListInv'
           /\ Len(rules') = Len(rules) - 1
           /\ \A n \in 1..(Len(rules) - 1) :
                rules'[n] = IF n < it THEN rules[n] ELSE rules[n + 1]
<1>0. PICK i \in 1..Len(rules) : i = it
  OBVIOUS
<1>1. PICK r \in 1..added : r = rules[i]
  BY ListTyped
<1>2. rules' = SubSeq(rules, 1, i - 1) \o SubSeq(rules, i + 1, Len(rules)) /\ cancels' = [cancels EXCEPT ![r] = @ + 1]
  BY <1>0, <1>1 DEF CancelHere, Here
<1>3. /\ rules' \in Seq(1..added)
      /\ Len(rules') = Len(rules) - 1
      /\ \A n \in 1..(Len(rules) - 1) : rules'[n] = IF n < i THEN rules[n] ELSE rules[n + 1]
  BY <1>2, Erase, Zenon DEF ListInv
<1>4. Len(rules) \in Nat /\ DOMAIN rules = 1..Len(rules) /\ DOMAIN rules' = 1..(Len(rules) - 1)
  BY <1>3, ListTyped, LenProperties
<1> DEFINE old(n) == IF n < i THEN n ELSE n + 1
<1>a. /\ \A n \in 1..(Len(rules) - 1) : /\ old(n) \in 1..Len(rules) /\ old(n) # i
                                        /\ rules'[n] = rules[old(n)]
      /\ \A m, n \in 1..(Len(rules) - 1) : old(m) = old(n) => m = n
  BY <1>3, <1>4
<1>b. \A m, n \in 1..Len(rules) : rules[m] = rules[n] => m = n
  BY DEF ListInv
<1> HIDE DEF old
<1>5. \A m, n \in 1..Len(rules') : rules'[m] = rules'[n] => m = n
  BY <1>3, <1>a, <1>b
<1>6. cancels' \in [RuleId -> Nat] /\ \A q \in RuleId : q # r => cancels'[q] = cancels[q]
  <2>1. cancels \in [RuleId -> Nat] /\ r \in RuleId
    BY ListTyped DEF ListInv
  <2>2. cancels[r] + 1 \in Nat
    BY <2>1
  <2>3. QED
    BY <1>2, <2>1, <2>2
<1>7. cancels[r] = 0 /\ cancels'[r] = 1 /\ InRules(r)
  <2>1. InRules(r)
    BY <1>1, <1>4 DEF InRules
  <2>2. cancels[r] = 0
    BY <2>1 DEF ListInv, CancelledOnce
  <2>3. QED
    BY <1>2, <2>1, <2>2, ListTyped DEF ListInv
<1>8. ~InRules(r)'
  BY <1>1, <1>4, <1>a, <1>b DEF InRules
<1>9. \A q \in 1..added : q # r => (InRules(q)' <=> InRules(q))
  <2> SUFFICES ASSUME NEW q \in 1..added, q # r
               PROVE  InRules(q)' <=> InRules(q)
    OBVIOUS
  <2>1. ASSUME InRules(q)
        PROVE  InRules(q)'
    <3>1. PICK n \in 1..Len(rules) : rules[n] = q
      BY <1>4, <2>1 DEF InRules
    <3>2. n # i
      BY <1>1, <3>1
    <3>3. CASE n < i
      BY <1>3, <1>4, <3>1, <3>3 DEF InRules
    <3>4. CASE n > i
      <4>1. n - 1 \in 1..(Len(rules) - 1) /\ ~(n - 1 < i) /\ (n - 1) + 1 = n
        BY <1>4, <3>4
      <4>2. rules'[n - 1] = q
        BY <1>3, <3>1, <4>1
      <4>3. QED
        BY <1>4, <4>1, <4>2 DEF InRules
    <3>5. QED
      BY <1>4, <3>2, <3>3, <3>4
  <2>2. ASSUME InRules(q)'
        PROVE  InRules(q)
    <3>1. PICK n \in 1..(Len(rules) - 1) : rules'[n] = q
      BY <1>4, <2>2 DEF InRules
    <3>2. n \in 1..Len(rules) /\ n + 1 \in 1..Len(rules)
      BY <1>4
    <3>3. QED
      BY <1>3, <1>4, <3>1, <3>2 DEF InRules
  <2>3. QED
    BY <2>1, <2>2
<1>10. CancelledOnce'
  <2>1. 1..added \subseteq RuleId
    BY ListTyped
  <2>2. ASSUME NEW q \in 1..added PROVE cancels'[q] = IF InRules(q)' THEN 0 ELSE 1
    <3>1. CASE q = r
      BY <1>7, <1>8, <3>1, Zenon
    <3>2. CASE q # r
      <4>1. cancels[q] = IF InRules(q) THEN 0 ELSE 1
        BY DEF ListInv, CancelledOnce
      <4>2. cancels'[q] = cancels[q]
        BY <1>6, <2>1, <3>2, Zenon
      <4>3. QED
        BY <1>9, <3>2, <4>1, <4>2, Zenon
    <3>3. QED
      BY <3>1, <3>2
  <2>3. QED
    BY <2>2, Zenon DEF CancelledOnce
<1>11. QED
  BY <1>0, <1>3, <1>5, <1>6, <1>10 DEF ListInv

(* add_rule() appends a rule that was never in the list. *)
LEMMA AddKeepsList ==
    ASSUME ListInv, AddRule
    PROVE  ListInv'
<1>0. PICK r \in Nat : r = added + 1
  BY DEF ListInv
<1>1. added < Len(RuleTable) /\ added' = r /\ rules' = Append(rules, r) /\ UNCHANGED cancels
  BY <1>0 DEF AddRule, history
<1>2. /\ Len(rules) \in Nat /\ rules \in [1..Len(rules) -> 1..added] /\ Len(RuleTable) \in Nat
      /\ added \in Nat /\ \A m, n \in 1..Len(rules) : rules[m] = rules[n] => m = n
  BY RuleAssumption, LenProperties DEF ListInv
<1>3. 1..r = 1..added \cup {r} /\ r \notin 1..added /\ r \in RuleId
  BY <1>0, <1>1, <1>2 DEF RuleId
<1>4. rules \in Seq(1..r)
  <2>1. rules \in [1..Len(rules) -> 1..r]
    BY <1>2, <1>3
  <2>2. QED
    BY <1>2, <2>1, SeqDef
<1>5. /\ rules' \in Seq(1..r) /\ Len(rules') = Len(rules) + 1
      /\ \A n \in 1..Len(rules) : rules'[n] = rules[n]
      /\ rules'[Len(rules) + 1] = r
  BY <1>1, <1>3, <1>4, AppendProperties
<1>6. /\ DOMAIN rules' = 1..(Len(rules) + 1) /\ DOMAIN rules = 1..Len(rules)
      /\ 1..(Len(rules) + 1) = 1..Len(rules) \cup {Len(rules) + 1}
  BY <1>2, <1>5, LenProperties
<1>7. \A m, n \in 1..Len(rules') : rules'[m] = rules'[n] => m = n
  <2>1. \A n \in 1..Len(rules) : rules'[n] \in 1..added /\ rules'[n] # r
    BY <1>2, <1>3, <1>5, Zenon
  <2>2. ASSUME NEW m \in 1..(Len(rules) + 1), NEW n \in 1..(Len(rules) + 1), rules'[m] = rules'[n]
        PROVE  m = n
    BY <1>2, <1>5, <1>6, <2>1, <2>2
  <2>3. QED
    BY <1>5, <2>2
<1>8. \A q \in RuleId : q > r => cancels'[q] = 0
  BY <1>0, <1>1 DEF ListInv, RuleId
<1>9. cancels[r] = 0 /\ InRules(r)'
  BY <1>0, <1>2, <1>3, <1>5, <1>6 DEF ListInv, InRules
<1>10. \A q \in 1..added : InRules(q)' <=> InRules(q)
  BY <1>2, <1>3, <1>5, <1>6, Zenon DEF InRules
<1>11. CancelledOnce'
  BY <1>1, <1>3, <1>9, <1>10, Zenon DEF ListInv, CancelledOnce
<1>12. r \in Nat /\ r <= Len(RuleTable) /\ cancels' \in [RuleId -> Nat]
  BY <1>0, <1>1, <1>2 DEF ListInv
<1>13. QED
  BY <1>1, <1>5, <1>7, <1>8, <1>11, <1>12, Zenon DEF ListInv

(* Every step keeps the list: add_rule() appends a new rule, and either    *)
(* loop erases a rule when it cancels it.                                  *)
LEMMA ListStep ==
    ASSUME ListInv, WalkInv, [Next]_vars
    PROVE  ListInv'
<1>1. CASE AddRule
  BY <1>1, AddKeepsList
<1>2. CASE SetupCancels \/ DispatchCancels
  <2>1. it \in 1..Len(rules) /\ CancelHere /\ UNCHANGED added
    BY <1>2, ListTyped DEF SetupCancels, DispatchCancels, Dispatching, WalkInv, program
  <2>2. QED
    BY <2>1, CancelKeepsList
<1>3. CASE UNCHANGED <<rules, added, cancels>>
  BY <1>3 DEF ListInv, CancelledOnce, InRules
<1>4. QED
  BY <1>1, <1>2, <1>3, Zenon
     DEF Next, vars, Setup, Dispatch, ChangeInterest, CloseFd, StartWait, PeerActs, SetupPolls,
         SetupEnds, PollReturns, PollTimesOut, PollInterrupted, PollFails, DispatchThrows,
         DispatchSkips, DispatchCalls, DispatchEnds, Stopped, program, history, loop

-----------------------------------------------------------------------------
(* Every rule has a descriptor and one of the two directions. *)
LEMMA RuleTyped ==
    ASSUME NEW r \in RuleId
    PROVE  Fd(r) \in FD /\ Direction(r) \in {"In", "Out"}
<1>1. RuleTable[r] \in [fd : FD, direction : {"In", "Out"}]
  BY RuleAssumption, ElementOfSeq, Zenon DEF RuleId
<1>2. QED
  BY <1>1 DEF Fd, Direction

(* A pollfd that has been set up has the rule's direction or nothing among *)
(* its events, and no results.                                             *)
LEMMA EntryTyped ==
    ASSUME NEW r \in RuleId
    PROVE  \E e \in PollEntry : /\ Entry(r) = <<e>> /\ e.rule = r /\ e.revents = {}
                                /\ e.events \subseteq {Direction(r)}
<1>1. Direction(r) \in {"In", "Out"}
  BY RuleTyped
<1> DEFINE e == [rule |-> r, events |-> IF interest[r] THEN {Direction(r)} ELSE {}, revents |-> {}]
<1>2. e \in PollEntry /\ e.rule = r /\ e.revents = {} /\ e.events \subseteq {Direction(r)}
  BY <1>1 DEF PollEntry
<1>3. Entry(r) = <<e>>
  BY DEF Entry
<1>4. QED
  BY <1>2, <1>3

(* poll(2) writes the results into the vector and nothing else. *)
LEMMA PollWrites ==
    ASSUME ListInv, WalkInv, PollReturns
    PROVE  /\ pollfds' \in Seq(PollEntry) /\ Len(pollfds') = Len(pollfds)
           /\ \E bad \in 0..Len(pollfds) :
                /\ bad # 0 \/ SomethingReported
                /\ \A n \in 1..Len(pollfds) :
                    /\ pollfds'[n].rule = pollfds[n].rule
                    /\ pollfds'[n].events = pollfds[n].events
                    /\ pollfds'[n].revents = Reported(pollfds[n])
                                                 \cup (IF n = bad THEN {"Err"} ELSE {})
<1>1. PICK bad \in 0..Len(pollfds) :
        /\ bad # 0 \/ SomethingReported
        /\ pollfds' = [n \in DOMAIN pollfds |->
              [pollfds[n] EXCEPT !.revents =
                  Reported(pollfds[n]) \cup (IF n = bad THEN {"Err"} ELSE {})]]
  BY Zenon DEF PollReturns
<1>2. /\ Len(pollfds) \in Nat /\ DOMAIN pollfds = 1..Len(pollfds)
      /\ pollfds \in [1..Len(pollfds) -> PollEntry]
  BY LenProperties DEF WalkInv
<1>3. ASSUME NEW n \in 1..Len(pollfds)
      PROVE  /\ pollfds'[n] \in PollEntry
             /\ pollfds'[n].rule = pollfds[n].rule
             /\ pollfds'[n].events = pollfds[n].events
             /\ pollfds'[n].revents = Reported(pollfds[n]) \cup (IF n = bad THEN {"Err"} ELSE {})
  <2>1. pollfds[n] \in PollEntry
    BY <1>2
  <2>2. pollfds[n].events \subseteq {"In", "Out"}
    BY <2>1 DEF PollEntry
  <2>3. Reported(pollfds[n]) \cup (IF n = bad THEN {"Err"} ELSE {})
            \subseteq pollfds[n].events \cup {"Hup", "Err"}
    BY <2>2 DEF Reported
  <2>4. pollfds'[n] = [pollfds[n] EXCEPT !.revents =
                  Reported(pollfds[n]) \cup (IF n = bad THEN {"Err"} ELSE {})]
    BY <1>1, <1>2
  <2>5. QED
    BY <2>1, <2>2, <2>3, <2>4 DEF PollEntry
<1>4. pollfds' \in [1..Len(pollfds) -> PollEntry]
  BY <1>1, <1>2, <1>3
<1>5. pollfds' \in Seq(PollEntry) /\ Len(pollfds') = Len(pollfds)
  <2>1. pollfds' \in Seq(PollEntry)
    BY <1>2, <1>4, SeqDef
  <2>2. 1..Len(pollfds') = 1..Len(pollfds) /\ Len(pollfds') \in Nat
    BY <1>4, <2>1, LenProperties
  <2>3. QED
    BY <1>2, <2>1, <2>2
<1>6. QED
  BY <1>1, <1>3, <1>5, Zenon

(* The vector of pollfds is a sequence of entries of rules in the table.   *)
LEMMA WalkTyped ==
    ASSUME WalkInv
    PROVE  /\ Len(pollfds) \in Nat /\ DOMAIN pollfds = 1..Len(pollfds)
           /\ \A n \in 1..Len(pollfds) :
                /\ pollfds[n].rule \in RuleId
                /\ pollfds[n].events \subseteq {"In", "Out"}
                /\ pollfds[n].revents \subseteq pollfds[n].events \cup {"Hup", "Err"}
<1>1. pollfds \in Seq(PollEntry)
  BY DEF WalkInv
<1>2. /\ Len(pollfds) \in Nat /\ DOMAIN pollfds = 1..Len(pollfds)
      /\ \A n \in 1..Len(pollfds) : pollfds[n] \in PollEntry
  BY <1>1, LenProperties, ElementOfSeq
<1>3. QED
  BY <1>2 DEF PollEntry

(* In the second loop, the entry at idx is that of the rule at it. *)
LEMMA AtSameRule ==
    ASSUME ListInv, WalkInv, Dispatching
    PROVE  /\ it \in 1..Len(rules) /\ idx \in 1..Len(pollfds)
           /\ This.rule = Here /\ Here \in RuleId
<1>1. /\ it \in 1..Len(rules) /\ idx \in Nat \ {0} /\ Len(pollfds) - idx = Len(rules) - it
      /\ \A n \in it..Len(rules) : pollfds[n - it + idx].rule = rules[n]
  <2>1. /\ pc = "dispatch" /\ it <= Len(rules) /\ it \in Nat \ {0} /\ idx \in Nat \ {0} /\ Aligned
    BY DEF Dispatching, WalkInv
  <2>2. it \in 1..Len(rules)
    BY <2>1, ListTyped
  <2>3. QED
    BY <2>1, <2>2 DEF Aligned
<1>2. it \in it..Len(rules) /\ it - it + idx = idx /\ idx \in 1..Len(pollfds)
  BY <1>1, ListTyped, WalkTyped
<1>3. pollfds[idx].rule = rules[it]
  BY <1>1, <1>2
<1>4. QED
  BY <1>1, <1>2, <1>3, ListTyped DEF This, Here

(* The first loop: an erased rule has no entry, any other gets one. *)
LEMMA SetupWalks ==
    ASSUME ListInv, WalkInv, SetupCancels \/ SetupPolls
    PROVE  WalkInv'
<1>1. /\ pc = "setup" /\ UNCHANGED <<pc, idx>> /\ it \in Nat \ {0} /\ it <= Len(rules)
      /\ Len(pollfds) = it - 1
      /\ \A n \in 1..(it - 1) : pollfds[n].rule = rules[n] /\ pollfds[n].revents = {}
      /\ pollfds \in Seq(PollEntry) /\ idx \in Nat \ {0}
  BY DEF SetupCancels, SetupPolls, WalkInv, EntriesUpTo
<1>2. it \in 1..Len(rules) /\ Len(rules) \in Nat /\ Here \in RuleId
  BY <1>1, ListTyped DEF Here
<1>3. CASE SetupCancels
  <2>1. UNCHANGED <<it, pollfds>> /\ CancelHere /\ UNCHANGED added
    BY <1>3 DEF SetupCancels, CancelHere, program
  <2>2. Len(rules') = Len(rules) - 1 /\ \A n \in 1..(it - 1) : rules'[n] = rules[n]
    BY <1>2, <2>1, CancelKeepsList
  <2>3. EntriesUpTo(it - 1)' /\ it <= Len(rules') + 1
    BY <1>1, <1>2, <2>1, <2>2 DEF EntriesUpTo
  <2>4. QED
    BY <1>1, <2>1, <2>3 DEF WalkInv, Aligned
<1>4. CASE SetupPolls
  <2>1. /\ pollfds' = pollfds \o Entry(Here) /\ it' = it + 1 /\ UNCHANGED rules
    BY <1>4 DEF SetupPolls
  <2>2. PICK e \in PollEntry : Entry(Here) = <<e>> /\ e.rule = Here /\ e.revents = {}
    BY <1>2, EntryTyped
  <2>3. pollfds' = Append(pollfds, e)
    BY <1>1, <2>1, <2>2, AppendIsConcat
  <2>4. /\ pollfds' \in Seq(PollEntry) /\ Len(pollfds') = it
        /\ \A n \in 1..(it - 1) : pollfds'[n] = pollfds[n]
        /\ pollfds'[it] = e
    <3>1. /\ pollfds' \in Seq(PollEntry) /\ Len(pollfds') = Len(pollfds) + 1
          /\ \A n \in 1..Len(pollfds) : pollfds'[n] = pollfds[n]
          /\ pollfds'[Len(pollfds) + 1] = e
      BY <1>1, <2>3, AppendProperties
    <3>2. Len(pollfds) + 1 = it
      BY <1>1
    <3>3. QED
      BY <1>1, <3>1, <3>2
  <2>5. \A n \in 1..it : pollfds'[n].rule = rules[n] /\ pollfds'[n].revents = {}
    BY <1>1, <2>2, <2>4 DEF Here
  <2>6. it' \in Nat \ {0} /\ it' - 1 = it /\ it' <= Len(rules) + 1
    BY <1>1, <1>2, <2>1
  <2>7. EntriesUpTo(it - 1)'
    BY <2>1, <2>4, <2>5, <2>6, Zenon DEF EntriesUpTo
  <2>8. QED
    BY <1>1, <2>1, <2>4, <2>6, <2>7 DEF WalkInv, Aligned
<1>5. QED
  BY <1>3, <1>4

(* The second loop: erasing the rule moves the list on, and the entry is   *)
(* passed whether or not the rule stays.                                   *)
LEMMA DispatchWalks ==
    ASSUME ListInv, WalkInv, Dispatching, UNCHANGED <<pc, pollfds>>, idx' = idx + 1,
           \/ CancelHere /\ UNCHANGED added
           \/ it' = it + 1 /\ UNCHANGED rules
    PROVE  WalkInv'
<1>1. /\ pc = "dispatch" /\ it \in 1..Len(rules) /\ idx \in 1..Len(pollfds)
      /\ Len(rules) \in Nat /\ Len(pollfds) \in Nat /\ pollfds \in Seq(PollEntry)
      /\ Len(pollfds) - idx = Len(rules) - it
      /\ \A n \in it..Len(rules) : pollfds[n - it + idx].rule = rules[n]
  BY AtSameRule, ListTyped, WalkTyped DEF Dispatching, WalkInv, Aligned
<1>2. idx' \in Nat \ {0}
  BY <1>1
<1>3. CASE CancelHere /\ UNCHANGED added
  <2>1. /\ it' = it /\ Len(rules') = Len(rules) - 1
        /\ \A n \in it..(Len(rules) - 1) : rules'[n] = rules[n + 1]
    <3>1. it' = it
      BY <1>3 DEF CancelHere
    <3>2. /\ Len(rules') = Len(rules) - 1
          /\ \A n \in 1..(Len(rules) - 1) : rules'[n] = IF n < it THEN rules[n] ELSE rules[n + 1]
      BY <1>1, <1>3, CancelKeepsList
    <3>3. QED
      BY <1>1, <3>1, <3>2
  <2>2. ASSUME NEW n \in it..(Len(rules) - 1)
        PROVE  pollfds[n - it + (idx + 1)].rule = rules'[n]
    <3>1. n + 1 \in it..Len(rules) /\ (n + 1) - it + idx = n - it + (idx + 1)
      BY <1>1
    <3>2. QED
      BY <1>1, <2>1, <3>1, Zenon
  <2>3. Aligned' /\ it' \in Nat \ {0} /\ it' <= Len(rules') + 1
    BY <1>1, <2>1, <2>2 DEF Aligned
  <2>4. QED
    BY <1>1, <1>2, <2>3 DEF WalkInv
<1>4. CASE it' = it + 1 /\ UNCHANGED rules
  <2>1. ASSUME NEW n \in (it + 1)..Len(rules)
        PROVE  pollfds[n - (it + 1) + (idx + 1)].rule = rules[n]
    <3>1. n \in it..Len(rules) /\ n - it + idx = n - (it + 1) + (idx + 1)
      BY <1>1
    <3>2. QED
      BY <1>1, <3>1
  <2>2. Aligned' /\ it' \in Nat \ {0} /\ it' <= Len(rules') + 1
    BY <1>1, <1>4, <2>1 DEF Aligned
  <2>3. QED
    BY <1>1, <1>2, <2>2 DEF WalkInv
<1>5. QED
  BY <1>3, <1>4

(* Every step keeps the list and the vector in step: the first loop erases *)
(* a rule without an entry, the second loop erases both or passes both.    *)
LEMMA WalkStep ==
    ASSUME ListInv, WalkInv, [Next]_vars
    PROVE  WalkInv'
<1>1. CASE pc' \in {"idle", "stopped"} /\ UNCHANGED <<it, idx, pollfds>>
  BY <1>1 DEF WalkInv, Aligned
<1>2. CASE StartWait
  <2>1. pc' = "setup" /\ it' = 1 /\ pollfds' = << >> /\ UNCHANGED <<rules, idx>>
    BY <1>2 DEF StartWait
  <2>2. pollfds' \in Seq(PollEntry) /\ Len(pollfds') = 0
    BY <2>1, EmptySeq
  <2>3. it' - 1 = 0 /\ it' \in Nat \ {0} /\ 1..(it' - 1) = {} /\ it' <= Len(rules') + 1
    BY <2>1, ListTyped
  <2>4. EntriesUpTo(it - 1)'
    BY <2>2, <2>3 DEF EntriesUpTo
  <2>5. QED
    BY <2>1, <2>2, <2>3, <2>4 DEF WalkInv, Aligned
<1>3. CASE UNCHANGED loop
  BY <1>3 DEF loop, WalkInv, Aligned, EntriesUpTo
<1>4. CASE SetupCancels \/ SetupPolls
  BY <1>4, SetupWalks
<1>5. CASE SetupEnds /\ pc' = "poll"
  <2>1. /\ pc = "setup" /\ it > Len(rules) /\ UNCHANGED <<rules, it, idx, pollfds>>
    BY <1>5 DEF SetupEnds
  <2>2. it - 1 = Len(rules)
    BY <2>1, ListTyped DEF WalkInv
  <2>3. EntriesUpTo(Len(rules))'
    BY <2>1, <2>2 DEF WalkInv, EntriesUpTo
  <2>4. QED
    BY <1>5, <2>1, <2>3 DEF WalkInv, Aligned
<1>6. CASE PollReturns \/ PollFails
  <2>1. /\ pc = "poll" /\ pc' = "dispatch" /\ it' = 1 /\ idx' = 1 /\ UNCHANGED rules
        /\ EntriesUpTo(Len(rules))
    BY <1>6 DEF PollReturns, PollFails, StartDispatch, WalkInv
  <2>2. /\ pollfds' \in Seq(PollEntry) /\ Len(pollfds') = Len(pollfds)
        /\ \A n \in 1..Len(pollfds) : pollfds'[n].rule = pollfds[n].rule
    BY <1>6, PollWrites DEF PollFails, WalkInv
  <2>3. ASSUME NEW n \in 1..Len(rules)
        PROVE  pollfds'[n - 1 + 1].rule = rules[n]
    <3>1. n - 1 + 1 = n
      BY ListTyped
    <3>2. QED
      BY <2>1, <2>2, <3>1 DEF EntriesUpTo
  <2>4. Aligned' /\ it' <= Len(rules') + 1
    BY <2>1, <2>2, <2>3, ListTyped DEF Aligned, EntriesUpTo
  <2>5. QED
    BY <2>1, <2>2, <2>4 DEF WalkInv
<1>7. CASE DispatchCancels
  BY <1>7, DispatchWalks DEF DispatchCancels, program
<1>8. CASE DispatchSkips \/ (DispatchCalls /\ MoveOn)
  BY <1>8, DispatchWalks DEF DispatchSkips, DispatchCalls, MoveOn
<1>9. CASE AddRule
  BY <1>1, <1>9 DEF AddRule
<1>10. CASE SetupEnds /\ pc' # "poll"
  BY <1>1, <1>10 DEF SetupEnds, Return
<1>11. CASE PollTimesOut \/ PollInterrupted \/ DispatchThrows \/ DispatchEnds
  BY <1>1, <1>11 DEF PollTimesOut, PollInterrupted, DispatchThrows, DispatchEnds, Return
<1>12. CASE DispatchCalls /\ ~MoveOn
  BY <1>1, <1>12 DEF DispatchCalls, Return
<1>13. CASE ChangeInterest \/ CloseFd \/ PeerActs \/ Stopped \/ UNCHANGED vars
  BY <1>3, <1>13 DEF ChangeInterest, CloseFd, PeerActs, Stopped, vars
<1>14. QED
  BY <1>2, <1>4, <1>5, <1>6, <1>7, <1>8, <1>9, <1>10, <1>11, <1>12, <1>13
     DEF Next, Setup, Dispatch

-----------------------------------------------------------------------------
(* One turn of the second loop that does not throw does for its entry what *)
(* the entry calls for.                                                    *)
LEMMA TurnHandles ==
    ASSUME ListInv, WalkInv, HandledBefore(idx), Dispatching, ~InError,
           idx' = idx + 1, UNCHANGED pollfds, gone \subseteq gone',
           ran' = IF PollReady THEN ran \cup {Here} ELSE ran,
           OnlyHungUp => Here \in gone'
    PROVE  HandledBefore(idx)'
<1>0. PICK k \in 1..Len(pollfds) : k = idx
  BY AtSameRule
<1>1. idx' - 1 = k /\ 1..k = 1..(k - 1) \cup {k} /\ k - 1 + 1 = k
  BY <1>0, WalkTyped
<1>2. /\ pollfds[k].rule = Here /\ "Err" \notin pollfds[k].revents
      /\ PollReady <=> Triggered(k)
      /\ OnlyHungUp <=> "Hup" \in pollfds[k].revents /\ pollfds[k].events # {} /\ ~Triggered(k)
  BY <1>0, AtSameRule DEF InError, This, PollReady, OnlyHungUp, Triggered
<1>3. /\ ran = {pollfds[n].rule : n \in {m \in 1..(k - 1) : Triggered(m)}}
      /\ \A n \in 1..(k - 1) :
        /\ "Err" \notin pollfds[n].revents
        /\ pollfds[n].events # {} /\ pollfds[n].revents = {"Hup"} => pollfds[n].rule \in gone
  BY <1>0 DEF HandledBefore
<1>4. ran' = {pollfds[n].rule : n \in {m \in 1..k : Triggered(m)}}
  BY <1>1, <1>2, <1>3
<1>5. pollfds[k].events # {} /\ pollfds[k].revents = {"Hup"} => Here \in gone'
  BY <1>2, WalkTyped DEF Triggered
<1>6. \A n \in 1..k :
        /\ "Err" \notin pollfds[n].revents
        /\ pollfds[n].events # {} /\ pollfds[n].revents = {"Hup"} => pollfds[n].rule \in gone'
  BY <1>1, <1>2, <1>3, <1>5
<1>7. \A n \in 1..k : Triggered(n)' <=> Triggered(n)
  BY DEF Triggered
<1>8. {m \in 1..k : Triggered(m)'} = {m \in 1..k : Triggered(m)}
  BY <1>7
<1>9. QED
  BY <1>1, <1>4, <1>6, <1>8, Zenon DEF HandledBefore

(* Every step keeps the account of what the second loop has handled.       *)
LEMMA OutcomeStep ==
    ASSUME ListInv, WalkInv, OutcomeInv, [Next]_vars
    PROVE  OutcomeInv'
<1>1. CASE UNCHANGED <<pc, result, ran, gone, pollfds, pollFailed, idx>>
  BY <1>1 DEF OutcomeInv, HandledBefore, Triggered, Reason
<1>2. CASE pc' = "stopped" /\ result' # "Success"
  BY <1>2 DEF OutcomeInv
<1>3. CASE /\ pc' \in {"setup", "poll"} /\ ran' = {} /\ result' # "Success"
  BY <1>3 DEF OutcomeInv
<1>4. CASE StartWait \/ SetupCancels \/ SetupPolls \/ (SetupEnds /\ pc' = "poll")
  BY <1>3, <1>4 DEF StartWait, SetupCancels, SetupPolls, SetupEnds, Return, OutcomeInv, history
<1>5. CASE SetupEnds /\ pc' # "poll"
  BY <1>2, <1>5 DEF SetupEnds, Return
<1>6. CASE PollReturns \/ PollFails
  <2>1. /\ pc' = "dispatch" /\ idx' = 1 /\ UNCHANGED <<result, ran>>
        /\ ran = {} /\ result # "Success"
    BY <1>6 DEF PollReturns, PollFails, StartDispatch, OutcomeInv, history
  <2>2. 1..(idx' - 1) = {}
    BY <2>1
  <2>3. HandledBefore(idx)'
    BY <2>1, <2>2 DEF HandledBefore
  <2>4. CASE PollFails
    BY <2>1, <2>3, <2>4 DEF PollFails, OutcomeInv, Reason
  <2>5. CASE PollReturns
    <3>1. PICK bad \in 0..Len(pollfds) :
                /\ bad # 0 \/ SomethingReported
                /\ \A n \in 1..Len(pollfds) :
                    pollfds'[n].revents = Reported(pollfds[n])
                                                 \cup (IF n = bad THEN {"Err"} ELSE {})
      BY <2>5, PollWrites
    <3>2. \E n \in 1..Len(pollfds) : pollfds'[n].revents # {}
      <4>1. CASE bad # 0
        <5>1. bad \in 1..Len(pollfds)
          BY <4>1, WalkTyped
        <5>2. "Err" \in pollfds'[bad].revents
          BY <3>1, <5>1
        <5>3. QED
          BY <5>1, <5>2
      <4>2. CASE SomethingReported
        BY <3>1, <4>2, WalkTyped DEF SomethingReported
      <4>3. QED
        BY <3>1, <4>1, <4>2
    <3>3. Len(pollfds') = Len(pollfds)
      BY <2>5, PollWrites
    <3>4. Reason'
      BY <3>2, <3>3 DEF Reason
    <3>5. QED
      BY <2>1, <2>3, <3>4 DEF OutcomeInv
  <2>6. QED
    BY <1>6, <2>4, <2>5
<1>7. CASE PollTimesOut
  BY <1>7 DEF PollTimesOut, Return, OutcomeInv
<1>8. CASE PollInterrupted \/ DispatchThrows
  BY <1>2, <1>8 DEF PollInterrupted, DispatchThrows, Return
<1>9. ASSUME Dispatching, UNCHANGED <<pc, result, pollfds, pollFailed>>, HandledBefore(idx)'
      PROVE  OutcomeInv'
  BY <1>9 DEF Dispatching, OutcomeInv, Reason
<1>10. CASE DispatchCancels
  <2>1. HandledBefore(idx)'
    BY <1>10, TurnHandles DEF DispatchCancels, CancelHere, OnlyHungUp, Dispatching, OutcomeInv
  <2>2. QED
    BY <1>9, <1>10, <2>1 DEF DispatchCancels
<1>11. CASE DispatchSkips
  <2>1. HandledBefore(idx)'
    BY <1>11, TurnHandles DEF DispatchSkips, Dispatching, OutcomeInv, history
  <2>2. QED
    BY <1>9, <1>11, <2>1 DEF DispatchSkips, history
<1>12. CASE DispatchCalls /\ MoveOn
  <2>1. HandledBefore(idx)'
    BY <1>12, TurnHandles DEF DispatchCalls, MoveOn, Dispatching, OutcomeInv
  <2>2. QED
    BY <1>9, <1>12, <2>1 DEF DispatchCalls, MoveOn
<1>13. CASE DispatchCalls /\ ~MoveOn
  BY <1>2, <1>13 DEF DispatchCalls, Return
<1>14. CASE DispatchEnds
  <2>1. /\ pc = "dispatch" /\ it > Len(rules) /\ pc' = "idle"
        /\ UNCHANGED <<idx, pollfds, ran, gone, pollFailed>>
    BY <1>14 DEF DispatchEnds, Return, history
  <2>2. idx = Len(pollfds) + 1
    BY <2>1, ListTyped, WalkTyped DEF WalkInv, Aligned
  <2>3. HandledBefore(idx) /\ Reason
    BY <2>1 DEF OutcomeInv
  <2>4. HandledBefore(Len(pollfds) + 1)' /\ Reason'
    BY <2>1, <2>2, <2>3 DEF HandledBefore, Triggered, Reason
  <2>5. QED
    BY <2>1, <2>4 DEF OutcomeInv
<1>15. CASE AddRule \/ ChangeInterest \/ CloseFd \/ PeerActs \/ Stopped \/ UNCHANGED vars
  BY <1>1, <1>15 DEF AddRule, ChangeInterest, CloseFd, PeerActs, Stopped, vars, loop, history
<1>16. QED
  BY <1>4, <1>5, <1>6, <1>7, <1>8, <1>10, <1>11, <1>12, <1>13, <1>14, <1>15
     DEF Next, Setup, Dispatch

-----------------------------------------------------------------------------
(* A descriptor that was ready stays ready, or is closed, hung up, or was  *)
(* serviced by a callback that has run: by whatever a step does to the     *)
(* kernel's side, given that only callbacks service descriptors.           *)
LEMMA TimelyKept ==
    ASSUME TimelyInv, NEW r \in RuleId, Timely(r), ran \subseteq ran',
           \/ UNCHANGED <<closed, rd, wr, hup>>
           \/ \E f \in FD : MarkClosed(f)
           \/ PeerActs
           \/ \E q \in ran' : q \in RuleId /\ Services(q)
    PROVE  Timely(r)'
<1>0. PICK f \in FD : f = Fd(r)
  BY RuleTyped
<1>1. /\ closed \in [FD -> BOOLEAN] /\ rd \in [FD -> {"none", "data", "end"}]
      /\ wr \in [FD -> BOOLEAN] /\ hup \in [FD -> BOOLEAN]
  BY DEF TimelyInv
<1>2. ASSUME closed[f] => closed'[f],
             hup[f] => hup'[f] \/ closed'[f],
             rd[f] # "none" => rd'[f] # "none" \/ closed'[f] \/ hup'[f] \/ \E q \in ran' : Fd(q) = f,
             wr[f] => wr'[f] \/ closed'[f] \/ hup'[f] \/ \E q \in ran' : Fd(q) = f
      PROVE  Timely(r)'
  BY <1>0, <1>2 DEF Timely, Ready
<1>3. CASE UNCHANGED <<closed, rd, wr, hup>>
  BY <1>2, <1>3
<1>4. CASE \E g \in FD : MarkClosed(g)
  BY <1>1, <1>2, <1>4 DEF MarkClosed
<1>5. CASE PeerActs
  <2>1. UNCHANGED closed
    BY <1>5 DEF PeerActs, program
  <2>2. PICK g \in FD :
           \/ /\ rd[g] = "none" /\ rd' \in {[rd EXCEPT ![g] = "data"], [rd EXCEPT ![g] = "end"]}
              /\ UNCHANGED <<wr, hup>>
           \/ wr' = [wr EXCEPT ![g] = TRUE] /\ UNCHANGED <<rd, hup>>
           \/ /\ hup' = [hup EXCEPT ![g] = TRUE]
              /\ wr' = [wr EXCEPT ![g] = FALSE] /\ UNCHANGED rd
    BY <1>5 DEF PeerActs
  <2>3. /\ rd[f] # "none" => rd'[f] # "none"
        /\ hup[f] => hup'[f]
        /\ wr[f] => wr'[f] \/ hup'[f]
    BY <1>1, <2>2
  <2>4. QED
    BY <1>2, <2>1, <2>3
<1>6. CASE \E q \in ran' : q \in RuleId /\ Services(q)
  <2>1. PICK q \in ran' : q \in RuleId /\ Services(q)
    BY <1>6
  <2>2. UNCHANGED <<closed, hup>>
    BY <2>1 DEF Services
  <2>3. CASE Fd(q) = f
    BY <1>2, <2>2, <2>3
  <2>4. CASE Fd(q) # f
    <3>1. rd'[f] = rd[f] /\ wr'[f] = wr[f]
      BY <1>1, <2>1, <2>4 DEF Services
    <3>2. QED
      BY <1>2, <2>2, <3>1
  <2>5. QED
    BY <2>3, <2>4
<1>7. QED
  BY <1>3, <1>4, <1>5, <1>6

(* What each step may do to the kernel's side of the descriptors. *)
LEMMA KernelStep ==
    ASSUME ListInv, WalkInv, Next
    PROVE  \/ UNCHANGED <<closed, rd, wr, hup>>
           \/ \E f \in FD : MarkClosed(f)
           \/ PeerActs
           \/ DispatchCalls /\ Services(Here)
<1>1. CASE DispatchCalls
  BY <1>1 DEF DispatchCalls, kernel
<1>2. CASE CloseFd
  BY <1>2 DEF CloseFd
<1>3. QED
  BY <1>1, <1>2, Zenon
     DEF Next, vars, Setup, Dispatch, AddRule, ChangeInterest, StartWait, SetupCancels,
         SetupPolls, SetupEnds, PollReturns, PollTimesOut, PollInterrupted, PollFails,
         DispatchThrows, DispatchCancels, DispatchSkips, DispatchEnds, Stopped, program, kernel

(* Every step keeps what poll() reported true of the rules not yet handled, *)
(* unless a callback of this wait used the descriptor or it was closed.     *)
LEMMA TimelyStep ==
    ASSUME ListInv, WalkInv, TimelyInv, [Next]_vars
    PROVE  TimelyInv'
<1>1. /\ closed \in [FD -> BOOLEAN] /\ rd \in [FD -> {"none", "data", "end"}]
      /\ wr \in [FD -> BOOLEAN] /\ hup \in [FD -> BOOLEAN]
  BY DEF TimelyInv
<1>2. /\ closed' \in [FD -> BOOLEAN] /\ rd' \in [FD -> {"none", "data", "end"}]
      /\ wr' \in [FD -> BOOLEAN] /\ hup' \in [FD -> BOOLEAN]
  <2>1. CASE UNCHANGED <<closed, rd, wr, hup>>
    BY <1>1, <2>1
  <2>2. CASE \E f \in FD : MarkClosed(f)
    BY <1>1, <2>2 DEF MarkClosed
  <2>3. CASE PeerActs
    BY <1>1, <2>3, Zenon DEF PeerActs, program
  <2>4. CASE Services(Here)
    BY <1>1, <2>4, Zenon DEF Services
  <2>5. QED
    BY <2>1, <2>2, <2>3, <2>4, KernelStep DEF vars, program, kernel
<1>3. CASE pc' # "dispatch"
  BY <1>2, <1>3 DEF TimelyInv
<1>4. CASE PollReturns
  <2>1. UNCHANGED <<closed, rd, wr, hup, ran>> /\ idx' = 1
    BY <1>4 DEF PollReturns, StartDispatch, program, kernel, history
  <2>2. PICK bad \in 0..Len(pollfds) : \A n \in 1..Len(pollfds) :
                    /\ pollfds'[n].rule = pollfds[n].rule
                    /\ pollfds'[n].events = pollfds[n].events
                    /\ pollfds'[n].revents = Reported(pollfds[n])
                                                 \cup (IF n = bad THEN {"Err"} ELSE {})
    BY <1>4, PollWrites, Zenon
  <2>3. ASSUME NEW n \in 1..Len(pollfds), Triggered(n)'
        PROVE  Ready(pollfds[n].rule)
    <3>1. PICK d \in pollfds[n].events : d \in pollfds'[n].revents
      BY <2>2, <2>3 DEF Triggered
    <3>2. d \notin {"Hup", "Err"}
      BY <3>1, WalkTyped
    <3>3. QED
      BY <2>2, <3>1, <3>2 DEF Reported
  <2>4. ASSUME NEW n \in 1..Len(pollfds), Triggered(n)'
        PROVE  Timely(pollfds[n].rule)'
    <3>1. Ready(pollfds[n].rule)'
      BY <2>1, <2>2, <2>3, <2>4 DEF Ready
    <3>2. QED
      BY <3>1 DEF Timely
  <2>5. Len(pollfds') = Len(pollfds)
    BY <1>4, PollWrites
  <2>6. QED
    BY <1>2, <2>1, <2>4, <2>5 DEF TimelyInv
<1>5. CASE PollFails
  <2>1. Len(pollfds) = Len(rules) /\ \A n \in 1..Len(rules) : pollfds[n].revents = {}
    BY <1>5 DEF PollFails, WalkInv, EntriesUpTo
  <2>2. UNCHANGED pollfds /\ idx' = 1
    BY <1>5 DEF PollFails, StartDispatch
  <2>3. QED
    BY <1>2, <2>1, <2>2 DEF TimelyInv, Triggered
<1>6. CASE /\ pc = "dispatch" /\ UNCHANGED pollfds /\ ran \subseteq ran'
           /\ idx' \in {idx, idx + 1}
           /\ \/ UNCHANGED <<closed, rd, wr, hup>>
              \/ \E f \in FD : MarkClosed(f)
              \/ PeerActs
              \/ \E q \in ran' : q \in RuleId /\ Services(q)
  <2>1. ASSUME NEW n \in idx'..Len(pollfds), Triggered(n)
        PROVE  Timely(pollfds[n].rule)'
    <3>1. n \in idx..Len(pollfds) /\ n \in 1..Len(pollfds)
      BY <1>6, WalkTyped DEF WalkInv
    <3>2. PICK r \in RuleId : r = pollfds[n].rule
      BY <3>1, WalkTyped
    <3>3. Timely(r)
      BY <1>6, <2>1, <3>1, <3>2 DEF TimelyInv
    <3>4. Timely(r)'
      BY <1>6, <3>3, TimelyKept
    <3>5. r = pollfds'[n].rule
      BY <1>6, <3>2
    <3>6. QED
      BY <3>4, <3>5
  <2>2. QED
    BY <1>2, <1>6, <2>1 DEF TimelyInv, Triggered
<1>7. CASE DispatchCancels \/ DispatchSkips
  BY <1>6, <1>7 DEF DispatchCancels, DispatchSkips, Dispatching, program, kernel, history
<1>8. CASE DispatchCalls /\ MoveOn
  <2>1. /\ Dispatching /\ ran' = ran \cup {Here} /\ UNCHANGED pollfds /\ idx' = idx + 1
        /\ \/ UNCHANGED <<closed, rd, wr, hup>>
           \/ \E f \in FD : MarkClosed(f)
           \/ Services(Here)
    BY <1>8 DEF DispatchCalls, MoveOn, kernel
  <2>2. Here \in RuleId /\ Here \in ran'
    BY <2>1, AtSameRule
  <2>3. QED
    BY <1>6, <2>1, <2>2 DEF Dispatching
<1>9. CASE DispatchCalls /\ ~MoveOn
  BY <1>3, <1>9 DEF DispatchCalls, Return
<1>10. CASE PeerActs /\ pc = "dispatch"
  BY <1>6, <1>10 DEF PeerActs, loop, history
<1>11. CASE UNCHANGED vars /\ pc = "dispatch"
  BY <1>6, <1>11 DEF vars, program, kernel, loop, history
<1>12. CASE DispatchThrows \/ DispatchEnds
  BY <1>3, <1>12 DEF DispatchThrows, DispatchEnds, Return
<1>13. CASE pc # "dispatch" /\ ~PollReturns /\ ~PollFails
  <2>1. pc' # "dispatch"
    BY <1>13, Zenon
       DEF Next, vars, Setup, Dispatch, AddRule, ChangeInterest, CloseFd, StartWait, PeerActs,
           SetupCancels, SetupPolls, SetupEnds, PollTimesOut, PollInterrupted, DispatchThrows,
           DispatchCancels, DispatchSkips, DispatchCalls, DispatchEnds, Dispatching, Stopped,
           Return, loop
  <2>2. QED
    BY <1>3, <2>1
<1>14. CASE pc = "dispatch" /\ Next
  BY <1>7, <1>8, <1>9, <1>10, <1>11, <1>12, <1>14
     DEF Next, Setup, Dispatch, AddRule, ChangeInterest, CloseFd, StartWait, SetupCancels,
         SetupPolls, SetupEnds, PollReturns, PollTimesOut, PollInterrupted, PollFails, Stopped
<1>15. QED
  BY <1>4, <1>5, <1>11, <1>13, <1>14

-----------------------------------------------------------------------------
(* An event loop with no rules satisfies the inductive invariant. *)
LEMMA InvStart == Init => Inv
<1> SUFFICES ASSUME Init
             PROVE  Inv
  OBVIOUS
<1>1. rules = << >> /\ pollfds = << >> /\ Len(rules) = 0 /\ Len(pollfds) = 0
  BY EmptySeq DEF Init
<1>2. Len(RuleTable) \in Nat
  BY RuleAssumption, LenProperties
<1>3. ListInv
  <2>1. rules \in Seq(1..added)
    BY <1>1, EmptySeq
  <2>2. added = 0 /\ cancels = [r \in RuleId |-> 0]
    BY DEF Init
  <2>3. QED
    BY <1>1, <1>2, <2>1, <2>2 DEF ListInv, CancelledOnce
<1>4. WalkInv
  <2>1. pollfds \in Seq(PollEntry)
    BY <1>1, EmptySeq
  <2>2. QED
    BY <2>1 DEF Init, WalkInv, Aligned
<1>5. OutcomeInv
  BY DEF Init, OutcomeInv
<1>6. TimelyInv
  BY DEF Init, TimelyInv
<1>7. QED
  BY <1>3, <1>4, <1>5, <1>6 DEF Inv

(* Every step of the event loop keeps the inductive invariant. *)
LEMMA InvStep == Inv /\ [Next]_vars => Inv'
  BY ListStep, WalkStep, OutcomeStep, TimelyStep DEF Inv

(* The two loops of wait_next_event() stay in step for any rules, however  *)
(* many are cancelled under way: the second loop never takes the poll      *)
(* result of one rule for that of another.                                 *)
THEOREM AlignedCorrect == Spec => []Aligned
<1>1. Inv => Aligned
  BY DEF Inv, WalkInv
<1>2. QED
  BY <1>1, InvStart, InvStep, PTL DEF Spec

(* Whichever of the three places cancels a rule, its cancel callback is    *)
(* called once, when it leaves the list, and never for a rule that stays.  *)
THEOREM CancelledOnceCorrect == Spec => []CancelledOnce
<1>1. Inv => CancelledOnce
  BY DEF Inv, ListInv
<1>2. QED
  BY <1>1, InvStart, InvStep, PTL DEF Spec

(* When wait_next_event() returns Success it has run the callbacks of all  *)
(* rules that poll() found ready and of no others.                         *)
THEOREM DispatchCompleteCorrect == Spec => []DispatchComplete
<1>1. Inv => DispatchComplete
  <2> SUFFICES ASSUME Inv, result = "Success"
               PROVE  DispatchComplete
    BY DEF DispatchComplete
  <2>1. HandledBefore(Len(pollfds) + 1)
    BY DEF Inv, OutcomeInv
  <2>2. Len(pollfds) + 1 - 1 = Len(pollfds) /\ DOMAIN pollfds = 1..Len(pollfds)
    BY WalkTyped DEF Inv
  <2>3. QED
    BY <2>1, <2>2 DEF HandledBefore, DispatchComplete, Triggered
<1>2. QED
  BY <1>1, InvStart, InvStep, PTL DEF Spec

(* A Success for which no callback ran and no rule was cancelled has one   *)
(* of the two causes that SuccessExplained names.                          *)
THEOREM SuccessExplainedCorrect == Spec => []SuccessExplained
<1>1. Inv => SuccessExplained
  <2> SUFFICES ASSUME Inv, result = "Success", ran \cup gone = {}, ~pollFailed
               PROVE  \E n \in DOMAIN pollfds :
                        pollfds[n].events = {} /\ "Hup" \in pollfds[n].revents
    BY DEF SuccessExplained
  <2>1. HandledBefore(Len(pollfds) + 1) /\ Reason
    BY DEF Inv, OutcomeInv
  <2>2. Len(pollfds) + 1 - 1 = Len(pollfds) /\ DOMAIN pollfds = 1..Len(pollfds)
    BY WalkTyped DEF Inv
  <2>3. PICK n \in 1..Len(pollfds) : pollfds[n].revents # {}
    BY <2>1 DEF Reason
  <2>4. ~Triggered(n) /\ "Err" \notin pollfds[n].revents
        /\ ~(pollfds[n].events # {} /\ pollfds[n].revents = {"Hup"})
    <3>1. /\ ran = {pollfds[m].rule : m \in {k \in 1..Len(pollfds) : Triggered(k)}}
          /\ "Err" \notin pollfds[n].revents
          /\ pollfds[n].events # {} /\ pollfds[n].revents = {"Hup"} => pollfds[n].rule \in gone
      BY <2>1, <2>2, <2>3 DEF HandledBefore
    <3>2. ran = {} /\ gone = {}
      OBVIOUS
    <3>3. Triggered(n) => pollfds[n].rule \in ran
      BY <2>3, <3>1
    <3>4. QED
      BY <3>1, <3>2, <3>3, Zenon
  <2>5. pollfds[n].events \subseteq {"In", "Out"} 
        /\ pollfds[n].revents \subseteq pollfds[n].events \cup {"Hup", "Err"}
    BY <2>3, WalkTyped DEF Inv
  <2>6. QED
    BY <2>2, <2>3, <2>4, <2>5 DEF Triggered
<1>2. QED
  BY <1>1, InvStart, InvStep, PTL DEF Spec

(* A callback is run by the second loop only, for an entry that poll()     *)
(* reported ready.                                                         *)
LEMMA CallbackStep == Inv /\ [Next]_vars => [RunsReady]_vars
<1> SUFFICES ASSUME Inv, Next
             PROVE  RunsReady
  OBVIOUS
<1>0. ListInv /\ WalkInv /\ TimelyInv
  BY DEF Inv
<1>1. CASE DispatchCalls
  <2>1. /\ ran' = ran \cup {Here} /\ Dispatching /\ PollReady
    BY <1>1 DEF DispatchCalls
  <2>2. idx \in 1..Len(pollfds) /\ This.rule = Here /\ DOMAIN pollfds = 1..Len(pollfds)
    BY <1>0, <2>1, AtSameRule, WalkTyped
  <2>3. Triggered(idx) /\ pollfds[idx].events # {} /\ pollfds[idx].rule = Here
    BY <2>1, <2>2 DEF PollReady, Triggered, This
  <2>4. idx \in idx..Len(pollfds)
    BY <1>0, <2>2, WalkTyped
  <2>5. Timely(Here)
    BY <1>0, <2>1, <2>3, <2>4 DEF TimelyInv, Dispatching
  <2>6. QED
    BY <2>1, <2>2, <2>3, <2>5 DEF RunsReady, Timely
<1>2. CASE ran' = ran \/ ran' = {}
  BY <1>2 DEF RunsReady
<1>3. QED
  BY <1>1, <1>2, Zenon
     DEF Next, vars, Setup, Dispatch, AddRule, ChangeInterest, CloseFd, StartWait, PeerActs,
         SetupCancels, SetupPolls, SetupEnds, PollReturns, PollTimesOut, PollInterrupted,
         PollFails, DispatchThrows, DispatchCancels, DispatchSkips, DispatchEnds, Stopped, history

(* Whatever callbacks do to descriptors and interests, a callback runs on  *)
(* a poll result that still holds, or that a close, a hangup or a callback *)
(* before it on the same descriptor has overtaken.                         *)
THEOREM CallbackReadyCorrect == Spec => CallbackReady
  BY InvStart, InvStep, CallbackStep, PTL DEF Spec, CallbackReady
=============================================================================
