------------------------------- MODULE Values -------------------------------
(***************************************************************************)
(* Typed values (src/src/value.rs): what a declared type accepts, the one  *)
(* form it is stored in, its order, ranges and boxes.  Two clerks write a  *)
(* value of one type each, and a reader relates the forms that are kept.   *)
(*                                                                         *)
(* A number is its sign, its digits and, after a point, more digits.  A    *)
(* timestamp is its fields, with the digits of its fraction and its zone;  *)
(* the fields have fixed width, so the byte order of two canonical texts   *)
(* is that of the fields.  Numbers and coordinates are compared exactly,   *)
(* where the code compares binary floating point.                          *)
(***************************************************************************)
EXTENDS Integers, Sequences, FiniteSets, SequencesExt, Functions

CONSTANTS
  Literals,   \* function from the declared types to what is offered for them
  MinYear,    \* 1 in the code
  MaxYear,    \* 9999
  MaxInt,     \* i64::MAX
  MaxDigits,  \* 38: digits of a decimal
  MaxRef,     \* 2048: bytes of an external reference
  Places,     \* bound: digits after the point of a coordinate
  NoPoint,    \* a number without a point, a timestamp without a fraction
  Zulu,       \* the zone Z
  Refused     \* what is not stored

ASSUME RangeAssumption ==
  /\ MinYear \in Int /\ MaxYear \in Int /\ MinYear <= 1970 /\ 1970 <= MaxYear
  /\ MaxInt \in Nat /\ MaxDigits \in Nat /\ MaxRef \in Nat /\ Places \in Nat

VARIABLES
  type,   \* the declared type
  wrote,  \* what each of the clerks wrote
  kept    \* the form that was stored of it, or Refused

valueVars == <<type, wrote, kept>>

-----------------------------------------------------------------------------
(* Numbers.                                                                *)

Digits(seq, from) == FoldLeft(LAMBDA n, d : 10 * n + d, from, seq)
Frac(n) == IF n.frac = NoPoint THEN <<>> ELSE n.frac
Signed(n, units) == IF n.neg THEN 0 - units ELSE units
AllZero(seq) == \A i \in DOMAIN seq : seq[i] = 0

(* The digits before the point: 0, or no leading 0.                        *)
IntPart(int) == int # <<>> /\ (int[1] = 0 => int = <<0>>)

(* is_canonical_integer.                                                   *)
IsCanonicalInteger(n) ==
  /\ n.frac = NoPoint /\ IntPart(n.int)
  /\ n.int[1] = 0 => ~n.neg

(* parse_integer.                                                          *)
ParsesInteger(n) ==
  /\ IsCanonicalInteger(n)
  /\ LET value == Signed(n, Digits(n.int, 0)) IN -MaxInt - 1 <= value /\ value <= MaxInt

(* Mutant of IsCanonicalDecimal: a negative zero with a fraction passes.   *)
IsDecimalOrZero(n, scale) ==
  /\ ~(n.neg /\ n.int = <<0>> /\ n.frac = NoPoint)
  /\ IF scale = 0 THEN IsCanonicalInteger([n EXCEPT !.neg = FALSE])
     ELSE n.frac # NoPoint /\ Len(n.frac) = scale /\ IntPart(n.int)

(* is_canonical_decimal.                                                   *)
IsCanonicalDecimal(n, scale) ==
  /\ ~(n.neg /\ n.int = <<0>> /\ AllZero(Frac(n)))
  /\ IF scale = 0 THEN IsCanonicalInteger([n EXCEPT !.neg = FALSE])
     ELSE n.frac # NoPoint /\ Len(n.frac) = scale /\ IntPart(n.int)

ParsesDecimal(n, scale) ==
  IsCanonicalDecimal(n, scale) /\ Len(n.int) + Len(Frac(n)) \in 1..MaxDigits

(* decimal_units.                                                          *)
DecimalUnits(n) == Signed(n, Digits(Frac(n), Digits(n.int, 0)))

(* is_canonical_number: the components of vectors and coordinates.         *)
IsCanonicalNumber(n) ==
  IF n.frac = NoPoint THEN IsCanonicalInteger(n)
  ELSE IntPart(n.int) /\ n.frac # <<>> /\ Last(n.frac) # 0

(* The value of a number, in units of its last place.                      *)
Scaled(n) == DecimalUnits([n EXCEPT !.frac = Frac(n) \o [i \in 1..(Places - Len(Frac(n))) |-> 0]])

ParsesCoordinate(n, most) ==
  /\ IsCanonicalNumber(n)
  /\ Scaled(n) \in (0 - most * 10^Places)..(most * 10^Places)

-----------------------------------------------------------------------------
(* Timestamps.                                                             *)

IsLeap(year) == year % 4 = 0 /\ (year % 100 # 0 \/ year % 400 = 0)
YearDays(year) == IF IsLeap(year) THEN 366 ELSE 365
MonthDays(year) ==
  <<31, IF IsLeap(year) THEN 29 ELSE 28, 31, 30, 31, 30, 31, 31, 30, 31, 30, 31>>

SumOf(seq) == FoldLeft(LAMBDA a, b : a + b, 0, seq)

(* The loops of unix_days over the years between 1970 and this one.        *)
YearStart(year) ==
  IF year >= 1970 THEN SumOf([i \in 1..(year - 1970) |-> YearDays(1969 + i)])
  ELSE 0 - SumOf([i \in 1..(1970 - year) |-> YearDays(1970 - i)])

YearStarts == [year \in MinYear..(MaxYear + 1) |-> YearStart(year)]

(* unix_days.                                                              *)
IsDate(year, month, day) ==
  /\ year \in MinYear..MaxYear /\ month \in 1..12
  /\ day \in 1..MonthDays(year)[month]

UnixDays(year, month, day) ==
  YearStarts[year] + SumOf(SubSeq(MonthDays(year), 1, month - 1)) + day - 1

(* parse_time pads a fraction of one to three digits.                      *)
Millis(frac) ==
  IF frac = NoPoint THEN 0
  ELSE Digits([i \in 1..3 |-> IF i <= Len(frac) THEN frac[i] ELSE 0], 0)

(* split_timezone, in minutes east.                                        *)
Offset(zone) ==
  IF zone = Zulu THEN 0 ELSE (IF zone.east THEN 1 ELSE -1) * (zone.hour * 60 + zone.minute)

(* What parse_timestamp_millis refuses.                                    *)
IsTimestamp(t) ==
  /\ IsDate(t.year, t.month, t.day)
  /\ t.hour \in 0..23 /\ t.minute \in 0..59 /\ t.second \in 0..59
  /\ t.frac # NoPoint => Len(t.frac) \in 1..3
  /\ t.zone # Zulu => t.zone.hour \in 0..23 /\ t.zone.minute \in 0..59

(* Mutant of Instant: the offset is added.                                 *)
InstantAdded(t) ==
  LET minutes == t.hour * 60 + t.minute + Offset(t.zone) IN
  [day |-> UnixDays(t.year, t.month, t.day) + minutes \div 1440,
   ms |-> (minutes % 1440) * 60000 + t.second * 1000 + Millis(t.frac)]

(* parse_timestamp_millis: the days and the milliseconds of a day that the *)
(* milliseconds since 1970 divide into.                                    *)
Instant(t) ==
  LET minutes == t.hour * 60 + t.minute - Offset(t.zone) IN
  [day |-> UnixDays(t.year, t.month, t.day) + minutes \div 1440,
   ms |-> (minutes % 1440) * 60000 + t.second * 1000 + Millis(t.frac)]

(* The loop of civil_from_unix_days: years go by while the days last.      *)
YearOf(day) ==
  LET years == {y \in MinYear..MaxYear : YearStarts[y] <= day /\ day < YearStarts[y + 1]}
  IN IF years = {} THEN Refused ELSE CHOOSE y \in years : TRUE

Civil(day) ==
  LET year == YearOf(day)
      rest == day - YearStarts[year]
      before(m) == SumOf(SubSeq(MonthDays(year), 1, m - 1))
      month == CHOOSE m \in 1..12 : before(m) <= rest /\ rest < before(m) + MonthDays(year)[m]
  IN [year |-> year, month |-> month, day |-> rest - before(month) + 1]

(* format_utc_millis.                                                      *)
FormatUtc(at) ==
  IF YearOf(at.day) = Refused THEN Refused
  ELSE LET date == Civil(at.day) IN
       [year |-> date.year, month |-> date.month, day |-> date.day,
        hour |-> at.ms \div 3600000, minute |-> (at.ms \div 60000) % 60,
        second |-> (at.ms \div 1000) % 60,
        frac |-> <<(at.ms \div 100) % 10, (at.ms \div 10) % 10, at.ms % 10>>, zone |-> Zulu]

(* is_canonical_timestamp and what parse_canonical asks besides.           *)
ParsesTimestamp(t) ==
  IsTimestamp(t) /\ t.zone = Zulu /\ t.frac # NoPoint /\ Len(t.frac) = 3

(* The byte order of two canonical timestamps.                             *)
Text(t) ==
  <<t.year, t.month, t.day, t.hour, t.minute, t.second, Millis(t.frac)>>

TextBefore(s, t) ==
  \E i \in DOMAIN Text(s) :
    /\ Text(s)[i] < Text(t)[i]
    /\ \A j \in 1..(i - 1) : Text(s)[j] = Text(t)[j]

-----------------------------------------------------------------------------
(* Types.                                                                  *)

(* parse_ref_token: length, and whether a comma or a blank is in it.       *)
ParsesRef(ref) == ref.bytes \in 1..MaxRef /\ ~ref.blank

(* from_token: the scale of a decimal and the dimension of a vector.       *)
IsType(t) ==
  /\ t.name = "decimal" => t.arg \in 0..18
  /\ t.name = "vector" => t.arg \in 1..1024

IsBox(b) ==
  /\ ParsesCoordinate(b.minLat, 90) /\ ParsesCoordinate(b.maxLat, 90)
  /\ ParsesCoordinate(b.minLon, 180) /\ ParsesCoordinate(b.maxLon, 180)
  /\ Scaled(b.minLat) <= Scaled(b.maxLat) /\ Scaled(b.minLon) <= Scaled(b.maxLon)

(* vector_components.                                                      *)
ParsesVector(raw, dim) == Len(raw) = dim /\ \A i \in DOMAIN raw : IsCanonicalNumber(raw[i])

(* parse_time_series.                                                      *)
ParsesSeries(raw) ==
  /\ ParsesRef(raw.ref) /\ ParsesTimestamp(raw.start) /\ ParsesTimestamp(raw.end)
  /\ ~TextBefore(raw.end, raw.start)

(* geo_point_parts.                                                        *)
ParsesPoint(raw) == ParsesCoordinate(raw.lat, 90) /\ ParsesCoordinate(raw.lon, 180)

(* parse_canonical.                                                        *)
ParseCanonical(t, raw) ==
  CASE t.name = "boolean" -> raw \in {"true", "false"}
    [] t.name = "integer" -> ParsesInteger(raw)
    [] t.name = "decimal" -> ParsesDecimal(raw, t.arg)
    [] t.name = "timestamp" -> ParsesTimestamp(raw)
    [] t.name = "vector" -> ParsesVector(raw, t.arg)
    [] t.name = "tsref" -> ParsesSeries(raw)
    [] t.name = "geo:point" -> ParsesPoint(raw)
    [] t.name = "geo:shape" -> ParsesRef(raw.ref) /\ IsBox(raw)
    [] t.name = "media" -> ParsesRef(raw)
    [] OTHER -> TRUE

(* canonicalize_write: a timestamp is brought to UTC, anything else is     *)
(* canonical already or refused.                                           *)
CanonicalizeWrite(t, raw) ==
  IF t.name = "timestamp"
  THEN IF IsTimestamp(raw) THEN FormatUtc(Instant(raw)) ELSE Refused
  ELSE IF ParseCanonical(t, raw) THEN raw ELSE Refused

(* cmp_values, for the types a range is defined for.                       *)
Less(t, left, right) ==
  CASE t.name = "integer" -> Signed(left, Digits(left.int, 0)) < Signed(right, Digits(right.int, 0))
    [] t.name = "decimal" -> DecimalUnits(left) < DecimalUnits(right)
    [] t.name = "timestamp" -> TextBefore(left, right)

(* time_series_overlaps.                                                   *)
Overlaps(value, min, max) ==
  ~TextBefore(max, min) /\ ~TextBefore(value.end, min) /\ ~TextBefore(max, value.start)

(* in_range, between two bounds that parse.                                *)
InTypedRange(t, value, min, max) ==
  IF t.name = "tsref" THEN Overlaps(value, min, max)
  ELSE ~Less(t, value, min) /\ ~Less(t, max, value)

(* Mutant of InBbox: a shape counts by its corners.                        *)
InBboxByCorner(t, value, box) ==
  LET in(n, lo, hi) == Scaled(lo) <= Scaled(n) /\ Scaled(n) <= Scaled(hi) IN
  IF t.name = "geo:point"
  THEN in(value.lat, box.minLat, box.maxLat) /\ in(value.lon, box.minLon, box.maxLon)
  ELSE /\ in(value.minLat, box.minLat, box.maxLat) \/ in(value.maxLat, box.minLat, box.maxLat)
       /\ in(value.minLon, box.minLon, box.maxLon) \/ in(value.maxLon, box.minLon, box.maxLon)

(* in_bbox: a point in the box, or an envelope that meets it.              *)
InBbox(t, value, box) ==
  IF t.name = "geo:point"
  THEN /\ Scaled(box.minLat) <= Scaled(value.lat) /\ Scaled(value.lat) <= Scaled(box.maxLat)
       /\ Scaled(box.minLon) <= Scaled(value.lon) /\ Scaled(value.lon) <= Scaled(box.maxLon)
  ELSE /\ Scaled(value.minLat) <= Scaled(box.maxLat) /\ Scaled(value.maxLat) >= Scaled(box.minLat)
       /\ Scaled(value.minLon) <= Scaled(box.maxLon) /\ Scaled(value.maxLon) >= Scaled(box.minLon)

-----------------------------------------------------------------------------
Undeclared == [name |-> "none", arg |-> 0]

ValuesInit == type = Undeclared /\ wrote = <<>> /\ kept = <<>>

Declare(t) ==
  /\ type = Undeclared /\ IsType(t)
  /\ type' = t
  /\ UNCHANGED <<wrote, kept>>

WriteValue(raw) ==
  /\ Len(wrote) < 2
  /\ wrote' = Append(wrote, raw)
  /\ kept' = Append(kept, CanonicalizeWrite(type, raw))
  /\ UNCHANGED type

ValuesNext ==
  \/ \E t \in DOMAIN Literals : Declare(t)
  \/ type # Undeclared /\ \E raw \in Literals[type] : WriteValue(raw)

-----------------------------------------------------------------------------
(* Properties.                                                             *)

(* The day number of the Gregorian calendar in closed form, counted from   *)
(* March so that the leap day comes last.                                  *)
DayNumber(year, month, day) ==
  LET y == IF month <= 2 THEN year - 1 ELSE year
      m == (month + 9) % 12 IN
  365 * y + (y \div 4) - (y \div 100) + (y \div 400) + (153 * m + 2) \div 5 + day - 719469

(* When a clerk's timestamp was, by that calendar.                         *)
Meaning(t) ==
  LET minutes == t.hour * 60 + t.minute - Offset(t.zone) IN
  <<DayNumber(t.year, t.month, t.day) + minutes \div 1440,
    (minutes % 1440) * 60000 + t.second * 1000 + Millis(t.frac)>>

Earlier(a, b) == a[1] < b[1] \/ (a[1] = b[1] /\ a[2] < b[2])

(* TimestampsKeepInstants (ADR 0012): what is stored of a timestamp is the *)
(* same instant, parses as it stands and is left alone by another write;   *)
(* it is refused only when its year in UTC is none; two that are the same  *)
(* instant are one text, and the order of the texts is that of the         *)
(* instants, across months, leap years, 1970 and the zones they came in.   *)
TimestampsKeepInstants ==
  type.name = "timestamp" =>
    /\ \A i \in DOMAIN kept : kept[i] # Refused =>
         /\ ParseCanonical(type, kept[i])
         /\ Meaning(kept[i]) = Meaning(wrote[i])
         /\ CanonicalizeWrite(type, kept[i]) = kept[i]
    /\ \A i \in DOMAIN kept : kept[i] = Refused /\ IsTimestamp(wrote[i]) =>
         \/ Meaning(wrote[i])[1] < DayNumber(MinYear, 1, 1)
         \/ Meaning(wrote[i])[1] > DayNumber(MaxYear, 12, 31)
    /\ \A i, j \in DOMAIN kept : kept[i] # Refused /\ kept[j] # Refused =>
         /\ Meaning(wrote[i]) = Meaning(wrote[j]) <=> kept[i] = kept[j]
         /\ TextBefore(kept[i], kept[j]) <=> Earlier(Meaning(wrote[i]), Meaning(wrote[j]))

(* FormsMeetMeaning (ADR 0012, ADR 0043): a number has one form, and the   *)
(* order of the forms is that of the numbers, so that an equality index    *)
(* and a range never disagree about them; a time series is in a range, and *)
(* a point or a shape in a box, when an instant or a place is in both.     *)
Meet(lo1, hi1, lo2, hi2) ==
  \E n \in {lo1, hi1, lo2, hi2} : lo1 <= n /\ n <= hi1 /\ lo2 <= n /\ n <= hi2

MeetInTime(s, t) ==
  \E at \in {s.start, s.end, t.start, t.end} : \A series \in {s, t} :
    /\ ~Earlier(Meaning(at), Meaning(series.start))
    /\ ~Earlier(Meaning(series.end), Meaning(at))

FormsMeetMeaning ==
  \A i, j \in DOMAIN kept : kept[i] # Refused /\ kept[j] # Refused =>
    /\ type.name \in {"integer", "decimal"} =>
         /\ kept[i] = kept[j] <=> Scaled(kept[i]) = Scaled(kept[j])
         /\ Less(type, kept[i], kept[j]) <=> Scaled(kept[i]) < Scaled(kept[j])
    /\ type.name = "vector" =>
         \A n \in DOMAIN kept[i] : kept[i][n] = kept[j][n] <=> Scaled(kept[i][n]) = Scaled(kept[j][n])
    /\ type.name = "tsref" =>
         InTypedRange(type, kept[i], kept[j].start, kept[j].end) <=> MeetInTime(kept[i], kept[j])
    /\ type.name = "geo:shape" =>
         InBbox(type, kept[i], kept[j]) <=>
           /\ Meet(Scaled(kept[i].minLat), Scaled(kept[i].maxLat),
                   Scaled(kept[j].minLat), Scaled(kept[j].maxLat))
           /\ Meet(Scaled(kept[i].minLon), Scaled(kept[i].maxLon),
                   Scaled(kept[j].minLon), Scaled(kept[j].maxLon))

(* ValuesKeepMeaning: both, of every value that is written.                *)
ValuesKeepMeaning == TimestampsKeepInstants /\ FormsMeetMeaning
=============================================================================
