--------------------------- MODULE ValidityPolicy ---------------------------
(***************************************************************************)
(* Until when a quote is valid: policy cl-retail-5-calendar-days-v1, or a  *)
(* privileged override.  The boundary is the first instant of a civil date *)
(* in the issuer's zone, found by bisection, since a local midnight may be *)
(* skipped or come twice and days are not all of one length.               *)
(*                                                                         *)
(* Civil dates are numbered, the date 0 beginning at instant 0 in UTC.  A  *)
(* "YYYY-MM-DD" of a four-digit year is compared as its number.            *)
(***************************************************************************)
EXTENDS Integers

CONSTANTS
    CivilDate,      \* the zone's calendar: the civil date of every instant
    Day,            \* the length of a UTC day
    Reach           \* how far a local midnight may be from UTC's: 14 hours

PolicyDays == 5
MaxOverrideDays == 365
NoOverride == [source |-> "policy"]

AddDays(date, days) == date + days

UtcMidnight(date) == date * Day

(* One turn of the loop: the half in which the date begins. *)
Halve(date, w) ==
    LET middle == (w.low + w.high) \div 2 IN
    IF CivilDate[middle] >= date
    THEN [low |-> w.low, high |-> middle] ELSE [low |-> middle, high |-> w.high]

StartOfLocalDate(date) ==
    LET Bisect[w \in [low : Int, high : Int]] ==
          IF w.high - w.low > 1 THEN Bisect[Halve(date, w)] ELSE w.high
    IN Bisect[[low |-> UtcMidnight(date) - Reach, high |-> UtcMidnight(date) + Reach]]

(* What startOfLocalDate promises to compute. *)
IsStartOf(date, t) ==
    /\ t \in Int
    /\ \A i \in Int : i < t <=> CivilDate[i] < date

Through(issuedAt, override) ==
    IF override = NoOverride THEN AddDays(CivilDate[issuedAt], PolicyDays - 1)
    ELSE override.through

OutOfRange(issuedAt, override) ==
    /\ override # NoOverride
    /\ \/ override.through < CivilDate[issuedAt]
       \/ override.through > AddDays(CivilDate[issuedAt], MaxOverrideDays)

ResolveValidity(issuedAt, override) ==
    IF OutOfRange(issuedAt, override) THEN "override_out_of_range"
    ELSE LET through == Through(issuedAt, override) IN
         [issueLocalDate |-> CivilDate[issuedAt],
          validThroughLocalDate |-> through,
          validUntilExclusive |-> StartOfLocalDate(AddDays(through, 1))]
=============================================================================
