---------------------------- MODULE MCFormatter ----------------------------
EXTENDS Formatter

\* format=csv,null:a:b,:x,null,x:null and the like.
MCFormats ==
    {[name |-> n, opts |-> <<>>] : n \in factories \cup {"CSV", "xml"}}
    \cup {[name |-> "csv", opts |-> o] : o \in {
            << <<"null", "0">> >>, << <<"null", "a">>, <<"null">> >>,
            << <<"null", "a", "b">>, <<"", "x">>, <<"x", "null">> >>}}

\* Two rows of one column, for all pairs of values of a type.
Pairs(type, V) ==
    {[cols |-> <<type>>, rows |-> << <<v>>, <<w>> >>] : v, w \in V \cup {NULL}}

MCIntervals ==
    {[months |-> m, days |-> 0, micros |-> 0] : m \in {-25, -12, -1, 13}}
    \cup {[months |-> 0, days |-> d, micros |-> u] :
            d \in {0, -1}, u \in (-30..30) \cup {-120, -61, -60, -59, 59, 60, 73, 119}}

One(type, V) == {[cols |-> <<type>>, rows |-> << <<v>> >>] : v \in V \cup {NULL}}

MCResults ==
    One("INTERVAL", MCIntervals) \cup Pairs("INTERVAL", {Zero})
    \cup One("HUGEINT", HugeInts) \cup One("UBIGINT", UInt64s)
    \cup Pairs("TIME", [sec : {1, 2}, frac : {0, 5}])
    \cup Pairs("VARCHAR", {<<"NULL">>, <<"">>, <<"a", "b">>})
    \cup Pairs("HUGEINT", {-2, 0})
    \cup Pairs("LIST", {<<>>, << <<"a">>, <<"b">> >>, << <<"a", "b">> >>})
    \cup {[cols |-> <<"VARCHAR", "LIST">>, rows |-> << << <<"a">>, <<>> >>, <<NULL, <<>> >> >>],
          [cols |-> <<"VARCHAR", "BLOB">>, rows |-> <<>>],
          [cols |-> <<"VARCHAR", "DATE">>,
           rows |-> << << <<"a">>, "x">>, << <<"b">>, "y">>, << <<"c">>, NULL>> >>]}
=============================================================================
