---------------------------- MODULE MCJsonStream ----------------------------
(***************************************************************************)
(* Instances of JsonStream for TLC: values of every kind of type, nested   *)
(* in one another, alone and in front of a second value; and classes that  *)
(* lost one or two of their properties, read as the older class.           *)
(***************************************************************************)
EXTENDS JsonStream

A == <<"a">>
B == <<"b">>
C == <<"c">>

ArrayOf(t)    == Type("array", <<t>>, <<>>)
MapOf(k, m)   == Type("map", <<k, m>>, <<>>)
Optional(t)   == Type("optional", <<t>>, <<<<"value">>>>)
Object(of, names)  == Type("object", of, names)
User(of, names)    == Type("user", of, names)
Tuple(of)          == Type("tuple", of, <<>>)
Variant(of) == Type("variant", Append(of, NullT),
                    Append([i \in DOMAIN of |-> Numeral(i - 1)], Numeral(-1)))

Point    == User(<<IntT, IntT>>, <<A, B>>)
Plain    == Object(<<IntT, BoolT, StringT>>, <<A, B, C>>)
Either   == Variant(<<IntT, StringT, ArrayOf(IntT)>>)
Nested   == Object(<<Plain, ArrayOf(IntT), Optional(IntT)>>, <<A, B, C>>)
Nothing  == Object(<<>>, <<>>)

Strings == {<<>>, <<"x">>, <<Quote>>, <<Backslash, "x">>, <<"x", Backslash>>, <<"\n", Quote>>,
            <<",", Quote, "]">>, <<"]">>, <<"x", "]">>, <<"1", "}">>, <<Backslash, Quote>>, <<"<">>, <<"&", "lt", ";">>}
Plains  == {<<n, b, s>> : n \in {0, -12}, b \in BOOLEAN, s \in {<<>>, <<Quote, "}">>}}

Of(t, values) == {[type |-> t, value |-> v, readAs |-> t] : v \in values}

Alone ==
  Of(IntT, {0, 12, -1}) \cup Of(BoolT, BOOLEAN) \cup Of(StringT, Strings) \cup Of(FloatT, {15, -2})
  \cup Of(ArrayOf(IntT), {<<>>, <<7>>, <<-1, 10, 0>>})
  \cup Of(ArrayOf(StringT), {<<s, t>> : s, t \in Strings})
  \cup Of(LongT, {LongMax, -LongMax, -LongMax - 1})
  \cup Of(ArrayOf(FloatT), {<<10, -35>>})
  \cup Of(ArrayOf(ArrayOf(IntT)), {<<>>, <<<<>>>>, <<<<>>, <<1>>, <<>>>>, <<<<1, 2>>, <<3>>>>})
  \cup Of(Plain, Plains) \cup Of(Nothing, {<<>>})
  \cup Of(Point, {<<3, -4>>}) \cup Of(ArrayOf(Point), {<<<<1, 2>>, <<3, 4>>>>})
  \cup Of(Nested, {<<<<1, TRUE, <<"x">>>>, l, o>> : l \in {<<>>, <<5, 6>>}, o \in {<<>>, <<8>>}})
  \cup Of(Tuple(<<BoolT, IntT, ArrayOf(IntT)>>), {<<TRUE, 9, <<>>>>, <<FALSE, -9, <<4>>>>})
  \cup Of(ArrayOf(Optional(Nothing)), {<<<<>>, <<<<>>>>, <<>>>>})
  \cup Of(ArrayOf(Either), {<<<<>>>>, <<<<0, 5>>, <<1, <<"x">>>>, <<2, <<1, 2>>>>, <<>>>>})

Maps ==
  Of(MapOf(IntT, ArrayOf(IntT)), {<<>>, <<<<1, <<>>>>, <<2, <<3, 4>>>>>>, <<<<1, <<5>>>>, <<2, <<>>>>>>})
  \cup Of(MapOf(StringT, Plain), {<<<<<<>>, <<1, TRUE, <<>>>>>>, <<<<"x">>, <<0, FALSE, <<"x">>>>>>>>})
  \cup Of(MapOf(IntT, MapOf(IntT, BoolT)), {<<<<1, <<>>>>, <<2, <<<<1, TRUE>>>>>>>>})
  \cup Of(ArrayOf(MapOf(IntT, Nothing)), {<<<<<<1, <<>>>>>>, <<>>, <<<<2, <<>>>>, <<3, <<>>>>>>>>})
  \cup Of(MapOf(ArrayOf(IntT), IntT), {<<<<<<>>, 1>>, <<<<1, 2>>, 2>>>>})

\* A class read as an older one, that has some of its properties.
Older(t, values, kept) ==
  {[type |-> t, value |-> v,
    readAs |-> Object([i \in DOMAIN k |-> t.of[k[i]]], [i \in DOMAIN k |-> t.names[k[i]]])] :
     v \in values, k \in kept}

\* The same for a class that reads its properties by hand: it refuses others.
OlderPoint == [type |-> Point, value |-> <<3, -4>>, readAs |-> User(<<IntT>>, <<A>>)]

Rich == Object(<<IntT, ArrayOf(IntT), Plain>>, <<A, B, C>>)
Skewed ==
  {OlderPoint} \cup
  {[type |-> LongT, value |-> n, readAs |-> IntT] : n \in {12, 127, 128, -128, -129}}
  \cup Older(Plain, Plains, {<<1>>, <<2, 3>>, <<1, 3>>, <<3, 1>>})
  \cup Older(Rich, {<<1, l, <<2, TRUE, <<"x">>>>>> : l \in {<<>>, <<5>>, <<5, 6>>}},
             {<<1>>, <<2>>, <<3>>, <<1, 3>>, <<1, 2>>, <<2, 3>>})
  \cup Older(Nested, {<<<<1, TRUE, <<"x">>>>, <<>>, o>> : o \in {<<>>, <<8>>}}, {<<1, 2>>, <<2>>})
  \cup {[type |-> ArrayOf(d.type), value |-> <<d.value, d.value>>, readAs |-> ArrayOf(d.readAs)] :
          d \in Older(Plain, {<<1, TRUE, <<"x">>>>}, {<<1, 2>>, <<2>>})}

MinOfInt == -128

Second == CHOOSE d \in Of(ArrayOf(IntT), {<<1>>}) : TRUE

\* Every value alone and in front of another.
AllDocuments ==
  {<<d>> : d \in Alone \cup Maps \cup Skewed}
  \cup {<<d, Second>> : d \in Alone \cup Maps \cup Skewed}
=============================================================================
