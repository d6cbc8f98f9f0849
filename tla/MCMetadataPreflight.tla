-------------------------- MODULE MCMetadataPreflight --------------------------
(* Documents of up to two members or elements, one level nested, in two     *)
(* layouts, with room for all and with each limit low in turn; with room    *)
(* for all also short texts of any characters.                             *)
EXTENDS MetadataPreflight, TLC

CONSTANT MaxLength

Scalar(kind, data) == [kind |-> kind, data |-> data, members |-> <<>>]
Box(kind, members) == [kind |-> kind, data |-> <<>>, members |-> members]
Named(name, value) == [name |-> name, value |-> value]

Integers == {Scalar("integer", d) : d \in {<<"1">>, <<"0">>, <<"-", "0">>, <<"-", "1">>, <<"1", "1">>, <<"-", "1", "2">>, <<"1", "2">>}}
Scalars == Integers \cup {Scalar("string", d) : d \in {<<>>, <<"b">>, <<"t", ":">>}} \cup {Scalar("word", <<>>)}
Small == {Scalar("integer", <<"1">>), Scalar("string", <<"b">>)}
Boxes(contents) ==
  {Box("array", s) : s \in {<<>>} \cup {<<Named(<<>>, v)>> : v \in contents}}
    \cup {Box("object", s) : s \in {<<>>} \cup {<<Named(n, v)>> : n \in {<<>>, <<"a">>}, v \in contents}}
Members == {Named(n, v) : n \in {<<"a">>, <<"b">>, <<"a", "b">>}, v \in Small \cup Boxes({Scalar("word", <<>>)})}
Values ==
  Scalars \cup Boxes(Scalars) \cup Boxes(Boxes(Small))
    \cup {Box("object", <<m, n>>) : m, n \in Members}
    \cup {Box("array", <<Named(<<>>, v), Named(<<>>, w)>>) : v, w \in Small \cup Boxes(Small)}

RECURSIVE Written(_, _)
Written(value, gap) ==
  LET m == value.members
      part(i) == IF value.kind = "array" THEN Written(m[i].value, gap)
                 ELSE <<"q">> \o m[i].name \o <<"q">> \o gap \o <<":">> \o gap \o Written(m[i].value, gap)
      inside  == CASE Len(m) = 0 -> <<>> [] Len(m) = 1 -> part(1) [] OTHER -> part(1) \o <<",">> \o part(2)
  IN  CASE value.kind = "string"  -> <<"q">> \o value.data \o <<"q">>
        [] value.kind = "integer" -> value.data
        [] value.kind = "word"    -> <<"t">>
        [] value.kind = "array"   -> <<"[">> \o inside \o <<"]">>
        [] OTHER                  -> <<"{">> \o gap \o inside \o <<"}">>

(* Without the last character a document is none, but for a number. *)
Whole == {[text |-> Written(v, gap), value |-> {v}] : v \in Values, gap \in {<<>>, <<Space>>}}
Cut == {[text |-> Front(Written(v, <<>>)), value |-> {}] : v \in Values \ Integers}

Characters == {"{", "]", "q", ":", "a", "0", "-", "1", "\\", "~"}
Is_Integer(t) ==
  \E sign \in {<<>>, <<"-">>}, d \in BoundedSeq({"0", "1"}, MaxLength) :
    t = sign \o d /\ d # <<>> /\ (d[1] = "0" => Len(d) = 1)
Is_String(t) == Len(t) \in {2, 3} /\ t[1] = "q" /\ Last(t) = "q" /\ (Len(t) = 3 => t[2] \notin {"q", "\\"})
Short ==
  {[text |-> t, value |-> IF Is_Integer(t) THEN {Scalar("integer", t)}
                          ELSE IF Is_String(t) THEN {Scalar("string", SubSeq(t, 2, Len(t) - 1))}
                          ELSE {}] : t \in BoundedSeq(Characters, MaxLength)}

MCSources == Whole \cup Cut \cup Short

Room ==
  [Maximum_Source_Bytes |-> 40, Maximum_Depth |-> 4, Maximum_Nodes |-> 20, Maximum_Object_Members |-> 4,
   Maximum_Total_String_Bytes |-> 20, Maximum_Number_Bytes |-> 4, Maximum_Work_Units |-> 3200]
MCLimits ==
  {Room, [Room EXCEPT !.Maximum_Source_Bytes = 10], [Room EXCEPT !.Maximum_Depth = 1],
   [Room EXCEPT !.Maximum_Nodes = 2], [Room EXCEPT !.Maximum_Object_Members = 1],
   [Room EXCEPT !.Maximum_Total_String_Bytes = 2], [Room EXCEPT !.Maximum_Number_Bytes = 2],
   [Room EXCEPT !.Maximum_Work_Units = 20]}
MCBound == <<"1", "1">>
MCNegativeBound == <<"1", "2">>
MCFormatKey == <<"a">>
MCFormatValue == <<"b">>
MCVersionKey == <<"b">>
=============================================================================
