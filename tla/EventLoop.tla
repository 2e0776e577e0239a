----------------------------- MODULE EventLoop -----------------------------
(***************************************************************************)
(* libsponge/util/eventloop.{hh,cc}: a list of rules (a file descriptor, a *)
(* direction, and the callbacks `callback`, `interest` and `cancel`), and  *)
(* wait_next_event(), which polls the descriptors and runs the callbacks.  *)
(*                                                                         *)
(* One step is one turn of one of the two loops of wait_next_event(), or   *)
(* the call of poll(); the peers of the descriptors act in between.  The   *)
(* rules' callbacks belong to the program: a callback may service its own  *)
(* descriptor, close any descriptor, or do neither, and it may change the  *)
(* interest of any rule.  Rules are added between calls of                 *)
(* wait_next_event() only.                                                 *)
(***************************************************************************)
EXTENDS Naturals, Sequences

CONSTANTS
    FD,             (* file descriptors *)
    RuleTable,      (* the rules the program adds, in this order *)
    PollMayFail     (* whether poll() may fail with other than EINTR *)

ASSUME RuleAssumption ==
    /\ RuleTable \in Seq([fd : FD, direction : {"In", "Out"}])
    /\ PollMayFail \in BOOLEAN

RuleId == 1..Len(RuleTable)

VARIABLES
    rules,      (* _rules, as a sequence of rule ids                       *)
    added,      (* how many rules of RuleTable the program has added       *)
    interest,   (* what the interest callback of each rule would return    *)
    eof,        (* FDWrapper::_eof of each descriptor                      *)
    closed,     (* FDWrapper::_closed of each descriptor                   *)
    rd,         (* kernel: what a read would find, "none", "data" or "end" *)
    wr,         (* kernel: a write would be taken                          *)
    hup,        (* kernel: the peer has hung up                            *)
    pc,         (* "idle", "setup", "poll", "dispatch" or "stopped"        *)
    it,         (* the rule the current loop is at, as a position in rules *)
    idx,        (* the entry of pollfds the second loop is at               *)
    pollfds,    (* the vector of the same name; `rule` is history          *)
    result,     (* what the last wait_next_event() came back with          *)
    cancels,    (* history: how often each rule was cancelled              *)
    ran,        (* history: rules whose callback ran in this call          *)
    gone,       (* history: rules cancelled in this call                   *)
    pollFailed  (* history: poll() failed in this call, not with EINTR     *)

program  == <<added, interest, eof, closed>>
kernel   == <<rd, wr, hup>>
history  == <<cancels, ran, gone, pollFailed>>
loop     == <<rules, pc, it, idx, pollfds, result>>
vars     == <<program, kernel, history, loop>>

Results == {"none", "Success", "Timeout", "Exit", "Signal", "Throw"}

TypeOK ==
    /\ rules \in Seq(RuleId) /\ \A m, n \in DOMAIN rules : rules[m] = rules[n] => m = n
    /\ added \in 0..Len(RuleTable)
    /\ interest \in [RuleId -> BOOLEAN]
    /\ eof \in [FD -> BOOLEAN] /\ closed \in [FD -> BOOLEAN]
    /\ rd \in [FD -> {"none", "data", "end"}]
    /\ wr \in [FD -> BOOLEAN] /\ hup \in [FD -> BOOLEAN]
    /\ pc \in {"idle", "setup", "poll", "dispatch", "stopped"}
    /\ it \in 1..(Len(RuleTable) + 1) /\ idx \in 1..(Len(RuleTable) + 1)
    /\ \A n \in DOMAIN pollfds : /\ pollfds[n].rule \in RuleId
                                 /\ pollfds[n].events \subseteq {"In", "Out"}
    /\ result \in Results
    /\ cancels \in [RuleId -> 0..2]
    /\ ran \subseteq RuleId /\ gone \subseteq RuleId
    /\ pollFailed \in BOOLEAN

(* What a rule can ask of a descriptor; nothing depends on the rest. *)
Watched(f, d) == \E r \in RuleId : RuleTable[r] = [fd |-> f, direction |-> d]

Init ==
    /\ rules = << >> /\ added = 0
    /\ interest = [r \in RuleId |-> TRUE]
    /\ eof = [f \in FD |-> FALSE] /\ closed = [f \in FD |-> FALSE]
    /\ rd = [f \in FD |-> "none"]
    /\ wr \in [FD -> BOOLEAN] /\ \A f \in FD : wr[f] => Watched(f, "Out")
    /\ hup = [f \in FD |-> FALSE]
    /\ pc = "idle" /\ it = 1 /\ idx = 1 /\ pollfds = << >> /\ result = "none"
    /\ cancels = [r \in RuleId |-> 0]
    /\ ran = {} /\ gone = {} /\ pollFailed = FALSE

Fd(r) == RuleTable[r].fd
Direction(r) == RuleTable[r].direction

-----------------------------------------------------------------------------
(* The program between two calls. *)

AddRule ==
    /\ pc = "idle"
    /\ added < Len(RuleTable)
    /\ added' = added + 1
    /\ rules' = Append(rules, added + 1)
    /\ UNCHANGED <<interest, eof, closed, kernel, history, pc, it, idx, pollfds, result>>

ChangeInterest ==
    /\ pc = "idle"
    /\ \E r \in RuleId : interest' = [interest EXCEPT ![r] = ~@]
    /\ UNCHANGED <<added, eof, closed, kernel, history, loop>>

(* FileDescriptor::close() *)
MarkClosed(f) ==
    /\ closed' = [closed EXCEPT ![f] = TRUE]
    /\ eof' = [eof EXCEPT ![f] = TRUE]
    /\ rd' = [rd EXCEPT ![f] = "none"]
    /\ wr' = [wr EXCEPT ![f] = FALSE]
    /\ hup' = [hup EXCEPT ![f] = FALSE]

CloseFd ==
    /\ pc = "idle"
    /\ \E f \in FD : ~closed[f] /\ MarkClosed(f)
    /\ UNCHANGED <<added, interest, history, loop>>

(* wait_next_event() is called, unless the last call said Exit ("make no   *)
(* further calls") or threw.                                               *)
StartWait ==
    /\ pc = "idle"
    /\ pc' = "setup" /\ it' = 1 /\ pollfds' = << >> /\ result' = "none"
    /\ ran' = {} /\ gone' = {} /\ pollFailed' = FALSE
    /\ UNCHANGED <<rules, idx, cancels, program, kernel>>

-----------------------------------------------------------------------------
(* The peers of the descriptors. *)

PeerActs ==
    /\ \E f \in FD :
        /\ ~closed[f]
        /\ \/ /\ Watched(f, "In") /\ rd[f] = "none"
              /\ \/ ~hup[f] /\ rd' = [rd EXCEPT ![f] = "data"]
                 \/ rd' = [rd EXCEPT ![f] = "end"]
              /\ UNCHANGED <<wr, hup>>
           \/ /\ Watched(f, "Out") /\ ~wr[f] /\ ~hup[f]
              /\ wr' = [wr EXCEPT ![f] = TRUE] /\ UNCHANGED <<rd, hup>>
           \/ /\ ~hup[f] /\ hup' = [hup EXCEPT ![f] = TRUE]
              /\ wr' = [wr EXCEPT ![f] = FALSE] /\ UNCHANGED rd
    /\ UNCHANGED <<program, history, loop>>

-----------------------------------------------------------------------------
(* wait_next_event(): the loop that sets up pollfds. *)

Here == rules[it]

Return(value) ==
    /\ result' = value
    /\ pc' = IF value \in {"Success", "Timeout"} THEN "idle" ELSE "stopped"

(* Mutant: the rule is cancelled but not erased. *)
CancelHereAndKeep ==
    /\ it' = it + 1
    /\ cancels' = [cancels EXCEPT ![Here] = IF @ < 2 THEN @ + 1 ELSE @]
    /\ gone' = gone \cup {Here}
    /\ UNCHANGED rules

(* this_rule.cancel(); it = _rules.erase(it) *)
CancelHere ==
    /\ rules' = SubSeq(rules, 1, it - 1) \o SubSeq(rules, it + 1, Len(rules))
    /\ cancels' = [cancels EXCEPT ![Here] = @ + 1]
    /\ gone' = gone \cup {Here}
    /\ UNCHANGED it

(* Mutant: the end of file is not looked at. *)
ExhaustedIfClosed(r) == closed[Fd(r)]

(* The two conditions under which setup cancels a rule. *)
Exhausted(r) == (Direction(r) = "In" /\ eof[Fd(r)]) \/ closed[Fd(r)]

SetupCancels ==
    /\ pc = "setup" /\ it <= Len(rules)
    /\ Exhausted(Here)
    /\ CancelHere
    /\ UNCHANGED <<ran, pollFailed, pc, idx, pollfds, result, program, kernel>>

(* Mutant: no placeholder for a rule without interest. *)
EntryIfInterested(r) ==
    IF interest[r] THEN <<[rule |-> r, events |-> {Direction(r)}, revents |-> {}]>> ELSE << >>

(* The pollfd of a rule, with no events (a placeholder) without interest. *)
Entry(r) ==
    <<[rule |-> r, events |-> IF interest[r] THEN {Direction(r)} ELSE {}, revents |-> {}]>>

SetupPolls ==
    /\ pc = "setup" /\ it <= Len(rules)
    /\ ~Exhausted(Here)
    /\ pollfds' = pollfds \o Entry(Here)
    /\ it' = it + 1
    /\ UNCHANGED <<rules, pc, idx, result, program, kernel, history>>

SomethingToPoll == \E n \in DOMAIN pollfds : pollfds[n].events # {}

SetupEnds ==
    /\ pc = "setup" /\ it > Len(rules)
    /\ \/ SomethingToPoll /\ pc' = "poll" /\ UNCHANGED result
       \/ ~SomethingToPoll /\ Return("Exit")
    /\ UNCHANGED <<rules, it, idx, pollfds, program, kernel, history>>

-----------------------------------------------------------------------------
(* wait_next_event(): the call of poll(2). *)

Ready(r) == IF Direction(r) = "In" THEN rd[Fd(r)] # "none" ELSE wr[Fd(r)]

(* What poll() reports for an entry: the events asked for, and a hangup    *)
(* whether or not it was asked for.                                        *)
Reported(e) ==
    {d \in e.events : Ready(e.rule)} \cup (IF hup[Fd(e.rule)] THEN {"Hup"} ELSE {})

SomethingReported == \E n \in DOMAIN pollfds : Reported(pollfds[n]) # {}

StartDispatch == pc' = "dispatch" /\ it' = 1 /\ idx' = 1

(* poll() returns a positive count; one descriptor may be in error. *)
PollReturns ==
    /\ pc = "poll"
    /\ \E bad \in 0..Len(pollfds) :
        /\ bad # 0 \/ SomethingReported
        /\ pollfds' = [n \in DOMAIN pollfds |->
              [pollfds[n] EXCEPT !.revents =
                  Reported(pollfds[n]) \cup (IF n = bad THEN {"Err"} ELSE {})]]
    /\ StartDispatch
    /\ UNCHANGED <<rules, result, program, kernel, history>>

PollTimesOut ==
    /\ pc = "poll" /\ ~SomethingReported
    /\ Return("Timeout")
    /\ UNCHANGED <<rules, it, idx, pollfds, program, kernel, history>>

(* EINTR: Result::Exit. *)
PollInterrupted ==
    /\ pc = "poll"
    /\ Return("Signal")
    /\ UNCHANGED <<rules, it, idx, pollfds, program, kernel, history>>

(* Any other error: the handler falls through, with every revents still 0. *)
PollFails ==
    /\ pc = "poll" /\ PollMayFail
    /\ pollFailed' = TRUE
    /\ StartDispatch
    /\ UNCHANGED <<rules, pollfds, result, program, kernel, cancels, ran, gone>>

-----------------------------------------------------------------------------
(* wait_next_event(): the loop that goes through the poll results. *)

This == pollfds[idx]
InError == "Err" \in This.revents

(* Mutant: any report is taken for the one asked for. *)
PollReadyAny == This.revents # {}

PollReady == This.revents \cap This.events # {}

(* Mutant: a hangup cancels even when there is something to read. *)
OnlyHungUpOrReady == "Hup" \in This.revents /\ This.events # {}

(* Mutant: a hangup is not looked at. *)
OnlyHungUpNever == FALSE

OnlyHungUp == "Hup" \in This.revents /\ This.events # {} /\ ~PollReady

Dispatching == pc = "dispatch" /\ it <= Len(rules)

DispatchThrows ==
    /\ Dispatching /\ InError
    /\ Return("Throw")
    /\ UNCHANGED <<rules, it, idx, pollfds, program, kernel, history>>

DispatchCancels ==
    /\ Dispatching /\ ~InError /\ OnlyHungUp
    /\ CancelHere
    /\ idx' = idx + 1
    /\ UNCHANGED <<pc, pollfds, result, program, kernel, ran, pollFailed>>

DispatchSkips ==
    /\ Dispatching /\ ~InError /\ ~OnlyHungUp /\ ~PollReady
    /\ it' = it + 1 /\ idx' = idx + 1
    /\ UNCHANGED <<rules, pc, pollfds, result, program, kernel, history>>

(* The callback reads or writes its descriptor, which counts as service.   *)
(* A read that finds the end sets _eof; a hangup with nothing left to read *)
(* is such an end.                                                         *)
Services(r) ==
    LET f == Fd(r)
    IN  /\ \/ /\ Direction(r) = "In" /\ rd[f] = "data"
              /\ rd' \in {rd, [rd EXCEPT ![f] = "none"]}
              /\ UNCHANGED <<eof, wr>>
           \/ /\ Direction(r) = "In" /\ (rd[f] = "end" \/ (rd[f] = "none" /\ hup[f]))
              /\ eof' = [eof EXCEPT ![f] = TRUE]
              /\ UNCHANGED <<rd, wr>>
           \/ /\ Direction(r) = "Out" /\ wr[f]
              /\ wr' \in {wr, [wr EXCEPT ![f] = FALSE]}
              /\ UNCHANGED <<rd, eof>>
        /\ UNCHANGED <<closed, hup>>

(* Mutant: wait_next_event() returns after the first callback. *)
MoveOnAndReturn == it' = it + 1 /\ idx' = idx + 1 /\ Return("Success")

MoveOn == it' = it + 1 /\ idx' = idx + 1 /\ UNCHANGED <<pc, result>>

(* The read or write of a descriptor that is not ready, or closed, throws. *)
Unserviceable(r) == closed[Fd(r)] \/ (~Ready(r) /\ ~(Direction(r) = "In" /\ hup[Fd(r)]))

DispatchCalls ==
    /\ Dispatching /\ ~InError /\ ~OnlyHungUp /\ PollReady
    /\ ran' = ran \cup {Here}
    /\ interest' \in {interest} \cup {[interest EXCEPT ![r] = ~@] : r \in RuleId}
    /\ \/ Services(Here) /\ MoveOn
       \/ /\ Unserviceable(Here)
          /\ Return("Throw")
          /\ UNCHANGED <<eof, closed, kernel, it, idx>>
       \/ /\ \/ \E f \in FD : ~closed[f] /\ MarkClosed(f)
             \/ UNCHANGED <<eof, closed, kernel>>
          /\ \/ ~interest'[Here] /\ MoveOn
             \/ interest'[Here] /\ Return("Throw") /\ UNCHANGED <<it, idx>>
    /\ UNCHANGED <<rules, added, pollfds, cancels, gone, pollFailed>>

DispatchEnds ==
    /\ pc = "dispatch" /\ it > Len(rules)
    /\ Return("Success")
    /\ UNCHANGED <<rules, it, idx, pollfds, program, kernel, history>>

Stopped == pc = "stopped" /\ UNCHANGED vars

-----------------------------------------------------------------------------
Setup == SetupCancels \/ SetupPolls \/ SetupEnds

Dispatch == DispatchThrows \/ DispatchCancels \/ DispatchSkips \/ DispatchCalls \/ DispatchEnds

Next ==
    \/ AddRule \/ ChangeInterest \/ CloseFd \/ StartWait \/ PeerActs
    \/ Setup
    \/ PollReturns \/ PollTimesOut \/ PollInterrupted \/ PollFails
    \/ Dispatch
    \/ Stopped

Spec == Init /\ [][Next]_vars

(* The program has added its rules and calls wait_next_event() over and    *)
(* over; a call runs on, and poll() returns when there is something to     *)
(* report.  Nothing is asked of the peers, and neither signals nor         *)
(* failures of poll() are forced.                                          *)
FairSpec ==
    /\ Spec
    /\ WF_vars(StartWait)
    /\ WF_vars(Setup)
    /\ WF_vars(PollReturns /\ SomethingReported)
    /\ WF_vars(Dispatch)

-----------------------------------------------------------------------------
InRules(r) == \E n \in DOMAIN rules : rules[n] = r

(* The second loop walks the list and the vector in step although rules    *)
(* are erased under way: the entry it looks at is that of the rule it is   *)
(* at, and it never runs past the end of the vector.                       *)
Aligned ==
    pc = "dispatch" =>
        /\ Len(pollfds) - idx = Len(rules) - it
        /\ \A n \in it..Len(rules) : pollfds[n - it + idx].rule = rules[n]

(* cancel is called once for each rule that leaves the list, never for one *)
(* that stays, whichever of the three places cancels it.                   *)
CancelledOnce ==
    \A r \in 1..added : cancels[r] = IF InRules(r) THEN 0 ELSE 1

(* When wait_next_event() returns Success, the callback of exactly the     *)
(* rules that poll() found ready has run, and the rules whose descriptor   *)
(* had only hung up are gone.                                              *)
DispatchComplete ==
    result = "Success" =>
        /\ ran = {pollfds[n].rule : n \in {m \in DOMAIN pollfds :
                                  pollfds[m].revents \cap pollfds[m].events # {}}}
        /\ \A n \in DOMAIN pollfds :
            pollfds[n].events # {} /\ pollfds[n].revents = {"Hup"} => pollfds[n].rule \in gone

(* Success is returned with no rule run or cancelled only when poll() has  *)
(* failed, or has reported the hangup of a descriptor whose rule was not   *)
(* interested, which the loop leaves alone.  "Success, //!< At least one   *)
(* Rule was triggered" (eventloop.hh:44) is true otherwise.                *)
SuccessExplained ==
    result = "Success" /\ ran \cup gone = {} =>
        \/ pollFailed
        \/ \E n \in DOMAIN pollfds : pollfds[n].events = {} /\ "Hup" \in pollfds[n].revents

(* A callback runs for a rule that was polled, and the poll result it runs *)
(* on is out of date only if the descriptor was closed or serviced by an   *)
(* earlier callback of the same call, or hung up meanwhile: nothing else   *)
(* makes the read or write of a callback block or fail.                    *)
RunsReady ==
    \A r \in ran' \ ran :
        /\ \E n \in DOMAIN pollfds : pollfds[n].rule = r /\ pollfds[n].events # {}
        /\ \/ Ready(r) \/ closed[Fd(r)] \/ hup[Fd(r)]
           \/ \E q \in ran : Fd(q) = Fd(r)
CallbackReady == [][RunsReady]_vars

(* Rules that can never be served again, because their descriptor was read *)
(* to the end or closed, do not pile up: time and again there is none in   *)
(* the list, unless the loop stops.                                        *)
ExhaustedLeaves ==
    []<>(\/ pc = "stopped"
         \/ \A r \in RuleId :
                InRules(r) => ~closed[Fd(r)] /\ ~(eof[Fd(r)] /\ Direction(r) = "In"))

(* A rule is not starved by the others: while it stays interested and its  *)
(* descriptor ready, its callback runs again and again, unless poll()      *)
(* keeps failing, a signal comes or an exception is thrown.  Nor is it     *)
(* left behind by Exit, which means "All rules have been canceled or were  *)
(* uninterested" (eventloop.hh:46).                                        *)
Wanted(r) == InRules(r) /\ interest[r] /\ Ready(r) /\ result \notin {"Signal", "Throw"}
NoStarvation == \A r \in RuleId : <>[]Wanted(r) => []<>(r \in ran) \/ []<>pollFailed

-----------------------------------------------------------------------------
(* "If an error occurs during polling, this function throws a              *)
(* std::runtime_error" (eventloop.cc:46).                                  *)
PollErrorThrows == pollFailed => result # "Success"
=============================================================================
