------------------------------- MODULE Usage --------------------------------
(***************************************************************************)
(* The parsed answer of the usage endpoint: three quota windows, each with   *)
(* the upstream verdict and, possibly, the percentage already consumed.      *)
(* Percentages are integers; the code compares them and does nothing else.   *)
(***************************************************************************)
EXTENDS Integers

(* flagged: status is neither "" nor "ok".  percent means something only     *)
(* when hasPercent does.                                                    *)
Window == [flagged : BOOLEAN, hasPercent : BOOLEAN, percent : Int]

Usage == [rolling : Window, weekly : Window, monthly : Window]

(* The zero values: a window the payload did not carry, and no payload.     *)
NoWindow == [flagged |-> FALSE, hasPercent |-> FALSE, percent |-> 0]
NoUsage  == [rolling |-> NoWindow, weekly |-> NoWindow, monthly |-> NoWindow]

Windows(u) == {u.rolling, u.weekly, u.monthly}

(* Upstream flagged some window as not usable.                              *)
Unavailable(u) == \E w \in Windows(u) : w.flagged

(* A ranking key that may be missing: (float64, bool) in the code.           *)
Score   == [ok : BOOLEAN, value : Int]
NoScore == [ok |-> FALSE, value |-> 0]
ScoreOf(v) == [ok |-> TRUE, value |-> v]

(* Only the rolling window ranks credentials.                               *)
SortPercent(u) ==
    IF u.rolling.hasPercent THEN ScoreOf(u.rolling.percent) ELSE NoScore

(* The largest percentage any window reported.                              *)
IsPeak(u, v) ==
    /\ \E w \in Windows(u) : w.hasPercent /\ w.percent = v
    /\ \A w \in Windows(u) : w.hasPercent => w.percent <= v

MaxPercent(u) ==
    IF \E w \in Windows(u) : w.hasPercent
      THEN ScoreOf(CHOOSE v \in {w.percent : w \in Windows(u)} : IsPeak(u, v))
      ELSE NoScore

-----------------------------------------------------------------------------
(* Parse: the answer as the endpoint may send it.  A window may be missing;  *)
(* its status is a string; its percentage may be missing or null, a number,  *)
(* a string that begins with one, or anything else.                         *)
RawWindow == [given  : BOOLEAN,
              status : {"", "ok", "limited"},
              form   : {"missing", "number", "text", "other"},
              value  : Int]

RawUsage == [decodes : BOOLEAN, rolling : RawWindow, weekly : RawWindow, monthly : RawWindow]

DecodePercent(raw) ==
    IF raw.form \in {"number", "text"} THEN ScoreOf(raw.value) ELSE NoScore

ParseWindow(raw) ==
    LET percent == DecodePercent(raw)
    IN  IF raw.given
          THEN [flagged |-> raw.status = "limited", hasPercent |-> percent.ok,
                percent |-> percent.value]
          ELSE NoWindow

(* An answer that is no JSON document, and one without a known window, is an *)
(* error; every other answer is a reading.                                  *)
Parses(raw) ==
    raw.decodes /\ (raw.rolling.given \/ raw.weekly.given \/ raw.monthly.given)

Parse(raw) == [rolling |-> ParseWindow(raw.rolling), weekly |-> ParseWindow(raw.weekly),
               monthly |-> ParseWindow(raw.monthly)]
=============================================================================
