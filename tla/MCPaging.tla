------------------------------ MODULE MCPaging ------------------------------
(* Instances of Paging for TLC: three rows whose order by text differs     *)
(* from their order by number, values that tie, are missing, are dropped   *)
(* or do not parse, and pages of one and two rows.  Before any row is      *)
(* written the run also walks the typed values of Values, two at a time:   *)
(* on either side of each boundary of the calendar, of the digits and of   *)
(* the ranges.                                                             *)
EXTENDS Paging, Values, TLC

Row(p, q) == [p |-> p, q |-> q]
MCOffered == {Row("10", None), Row("2", "x"), Row("x", "2"), Row(None, "2")}

MCStarts ==
  {<<Row("10", None), Row("2", "x"), Row(None, "2")>>, <<Row("2", None), Row("x", "2"), Row("2", "x")>>,
   <<NoRow, Row("2", "x"), NoRow>>}

MCPlace == [string |-> ("10" :> 1 @@ "2" :> 2 @@ "x" :> 3), integer |-> ("2" :> 2 @@ "10" :> 10)]

D(p, dropped) == [types |-> [p |-> p, q |-> "string"], dropped |-> dropped]
MCDescriptors == {D("string", {}), D("integer", {}), D("string", {"p"})}

By(prop, desc) == [prop |-> prop, desc |-> desc]
Q(sorts, size, bound, hide) == [sorts |-> sorts, size |-> size, bound |-> bound, hide |-> hide]
MCRequests ==
  {Q(<<By("p", FALSE)>>, 1, 3, {}), Q(<<By("p", TRUE)>>, 1, 3, {1}), Q(<<By("p", TRUE)>>, 2, 3, {}),
   Q(<<By("q", FALSE), By("p", TRUE)>>, 1, 2, {}), Q(<<By("p", FALSE)>>, 0, 3, {})}
-----------------------------------------------------------------------------
T(name, arg) == [name |-> name, arg |-> arg]
At(year, day, clock, zone) ==
  [year |-> year, month |-> day[1], day |-> day[2], hour |-> clock[1], minute |-> clock[2],
   second |-> clock[3], frac |-> clock[4], zone |-> zone]
Zone(east, hour, minute) == [east |-> east, hour |-> hour, minute |-> minute]

Times ==
  {At(y, d, c[1], c[2]) :
     y \in {1900, 1970, 2000, 2101},
     d \in {<<1, 1>>, <<2, 29>>, <<3, 1>>, <<12, 31>>},
     c \in {<<<<0, 0, 0, NoPoint>>, Zulu>>, <<<<23, 59, 59, <<9, 9, 9>>>>, Zulu>>,
            <<<<0, 0, 0, <<5>>>>, Zone(TRUE, 23, 59)>>, <<<<23, 30, 0, NoPoint>>, Zone(FALSE, 0, 31)>>}}
    \cup {At(2000, <<4, 31>>, <<0, 0, 0, NoPoint>>, Zulu), At(2000, <<13, 1>>, <<0, 0, 0, NoPoint>>, Zulu),
          At(2000, <<1, 1>>, <<24, 0, 0, NoPoint>>, Zulu), At(2000, <<1, 1>>, <<0, 0, 0, <<>>>>, Zulu),
          At(2000, <<1, 1>>, <<0, 0, 0, <<0, 0, 0, 0>>>>, Zulu),
          At(2000, <<1, 1>>, <<0, 0, 0, NoPoint>>, Zone(TRUE, 24, 0))}

N(neg, int, frac) == [neg |-> neg, int |-> int, frac |-> frac]
Numerals ==
  {N(neg, int, frac) : neg \in BOOLEAN,
     int \in {<<>>, <<0>>, <<0, 7>>, <<1, 2, 7>>, <<1, 2, 8>>},
     frac \in {NoPoint, <<>>, <<0>>, <<5>>}}

Ref == [bytes |-> 1, blank |-> FALSE]
Years == {At(y, <<1, 1>>, <<0, 0, 0, <<0, 0, 0>>>>, Zulu) : y \in {1969, 1970, 2000}}
Coordinates == {N(TRUE, <<9, 0>>, NoPoint), N(FALSE, <<0>>, NoPoint), N(FALSE, <<0>>, <<5>>)}
Shape(ref, minLat, maxLat, minLon, maxLon) ==
  [ref |-> ref, minLat |-> minLat, maxLat |-> maxLat, minLon |-> minLon, maxLon |-> maxLon]

MCLiterals ==
  (T("timestamp", 0) :> Times @@ T("integer", 0) :> Numerals @@ T("decimal", 1) :> Numerals
   @@ T("decimal", 0) :> Numerals @@ T("decimal", 19) :> {} @@ T("vector", 2000) :> {}
   @@ T("vector", 1) :> {<<n>> : n \in Coordinates} \cup {<<>>}
   @@ T("boolean", 0) :> {"true", "false", "yes"} @@ T("string", 0) :> {"x"}
   @@ T("tsref", 0) :> {[ref |-> Ref, start |-> s, end |-> e] : s \in Years, e \in Years}
   @@ T("geo:point", 0) :> {[lat |-> n, lon |-> n] : n \in Numerals}
   @@ T("geo:shape", 0) :> {Shape(Ref, a, b, c, d) : a, b, c, d \in Coordinates \ {N(TRUE, <<9, 0>>, NoPoint)}}
       \cup {Shape(Ref, a, b, a, b) : a, b \in Coordinates}
   @@ T("media", 0) :> {Ref, [Ref EXCEPT !.bytes = 0], [Ref EXCEPT !.bytes = 3], [Ref EXCEPT !.blank = TRUE]})

Bare == [rows |-> <<NoRow, Row("2", "x"), NoRow>>, desc |-> D("string", {})]

MCInit == PagingInit /\ ValuesInit
MCNext == \/ PagingNext /\ type = Undeclared /\ UNCHANGED valueVars
          \/ ValuesNext /\ <<live, writes, chain>> = <<Bare, 0, NoChain>> /\ UNCHANGED pagingVars
MCSpec == MCInit /\ [][MCNext]_<<pagingVars, valueVars>>
=============================================================================
