------------------------------ MODULE Detection ------------------------------
(***************************************************************************)
(* The detectors of suspicious calls (nlp/call_detection.py) and transfers *)
(* (financial/transaction_detection.py), and the summaries of the same     *)
(* rows that the analytics routes give (analytics/..).                   *)
(*                                                                         *)
(* A call is [caller, callee, duration_sec, time], a transfer [sender,     *)
(* receiver, amount, time]; a time is what parse_call_hour finds in the    *)
(* text: an hour with AM, PM or neither, or none at all.                   *)
(***************************************************************************)
EXTENDS Integers, Sequences, FiniteSets

LongDuration == 300             \* long_duration_threshold_sec
BurstCount == 3                 \* burst_count_threshold
ReportingThreshold == 50000
LargeAmount == 200000

NoTime == [hour |-> 0, half |-> "none"]

Indices(rows, Test(_)) == {i \in DOMAIN rows : Test(rows[i])}

\* Noon where no time is found.  With AM or PM the hour may be any number of two
\* digits: "45 AM" is the hour 45.
parse_call_hour(time) ==
    CASE time.half = "none" -> 12
      [] time.half = "PM" /\ time.hour < 12 -> time.hour + 12
      [] time.half = "AM" /\ time.hour = 12 -> 0
      [] time.half = "24h" -> time.hour % 24
      [] OTHER -> time.hour

Nocturnal(row) == parse_call_hour(row.time) \in 0 .. 5

-----------------------------------------------------------------------------
(* Calls                                                                    *)

Ends(call) == {call.caller, call.callee}        \* tuple(sorted([p1, p2]))

CallsOfPair(calls, pair) == Indices(calls, LAMBDA c : Ends(c) = pair)

\* Mutant of Burst: the alert is raised for the call that completes a burst.
BurstOnce(calls, pair) == Cardinality(CallsOfPair(calls, pair)) = BurstCount

Burst(calls, pair) == Cardinality(CallsOfPair(calls, pair)) >= BurstCount

\* The positions of the calls that are flagged.
detect_suspicious_calls(calls) ==
    Indices(calls, LAMBDA c : \/ c.duration_sec >= LongDuration
                              \/ Nocturnal(c)
                              \/ Burst(calls, Ends(c)))

-----------------------------------------------------------------------------
(* Transfers                                                                *)

TransfersOfPair(transfers, sender, receiver) ==
    Indices(transfers, LAMBDA t : t.sender = sender /\ t.receiver = receiver)

\* structuring_min_ratio is 0.70.
JustBelow(t) ==
    ReportingThreshold * 7 <= t.amount * 10 /\ t.amount < ReportingThreshold

Structuring(transfers, sender, receiver) ==
    LET of == TransfersOfPair(transfers, sender, receiver) IN
    \/ Cardinality({i \in of : JustBelow(transfers[i])}) >= 2
    \/ Cardinality(of) >= 3

\* The positions of the transfers that are flagged.
detect_suspicious_transactions(transfers) ==
    Indices(transfers, LAMBDA t :
        \/ t.amount >= LargeAmount
        \/ /\ t.amount < ReportingThreshold
           /\ Structuring(transfers, t.sender, t.receiver)
        \/ ReportingThreshold - 1000 <= t.amount /\ t.amount < ReportingThreshold)

-----------------------------------------------------------------------------
(* Summaries                                                                *)

\* The first index with the largest value: max(.., key=..).
Largest(rows, Key(_)) ==
    CHOOSE i \in DOMAIN rows : \A j \in DOMAIN rows :
        \/ Key(rows[j]) < Key(rows[i])
        \/ Key(rows[j]) = Key(rows[i]) /\ i <= j

\* The call summary has a pair and a night of its own, ...
PairOf(call) == {call.caller, call.callee}

LikePair(calls, call) == Indices(calls, LAMBDA c : PairOf(c) = PairOf(call))

\* Mutant of CountedByNight: the night of the summary ends an hour later.
CountedUntilSix(call) == parse_call_hour(call.time) \in 0 .. 6

CountedByNight(call) == parse_call_hour(call.time) \in 0 .. 5

analyze_case_calls(calls) ==
    IF calls = <<>> THEN [total |-> 0, pairCount |-> 0, nocturnal |-> 0, longest |-> 0]
    ELSE LET count(c) == Cardinality(LikePair(calls, c)) IN
         [total |-> Len(calls),
          pairCount |-> count(calls[Largest(calls, count)]),
          nocturnal |-> Cardinality(Indices(calls, CountedByNight)),
          longest |-> calls[Largest(calls, LAMBDA c : c.duration_sec)].duration_sec]

analyze_case_transactions(transfers) ==
    IF transfers = <<>> THEN [total |-> 0, largest |-> 0]
    ELSE [total |-> Len(transfers),
          largest |-> transfers[Largest(transfers, LAMBDA t : t.amount)].amount]

\* The rows of one hour, calls and transfers together.
OfHour(rows, h) == Cardinality(Indices(rows, LAMBDA r : parse_call_hour(r.time) = h))

\* ... and so has the timeline.
EventByNight(row) == parse_call_hour(row.time) \in 0 .. 5

Hours == 0 .. 23                \* hours_dist

\* A row of any other hour is a KeyError, and the request fails.
analyze_case_timeline(calls, transfers) ==
    [fails |-> \E r \in {calls[i] : i \in DOMAIN calls}
                        \cup {transfers[i] : i \in DOMAIN transfers} :
                   parse_call_hour(r.time) \notin Hours,
     hours |-> [h \in Hours |-> OfHour(calls, h) + OfHour(transfers, h)],
     nocturnal |-> Cardinality(Indices(calls, EventByNight))
                   + Cardinality(Indices(transfers, EventByNight))]

=============================================================================
