--------------------------- MODULE WampArguments ---------------------------
(***************************************************************************)
(* The accessors of the arguments of a wamp_call_result.  wamp_invocation  *)
(* and wamp_event have the same, line by line.  An object is given the     *)
(* list and the dictionary of a message; the application asks for single   *)
(* arguments, converted to the type it wants.  WampCallResult says which   *)
(* list and dictionary a result refers to, as members of Data; here each   *)
(* stands for any list and any dictionary.                                 *)
(***************************************************************************)
EXTENDS WampCallResult, SequencesExt

CONSTANTS
    Keys,      \* keyword names, as sequences of characters
    Types,     \* msgpack types a value may have and a caller may ask for
    MaxItems   \* bound on the length of a list and of a dictionary

ASSUME ArgumentsAssumption == /\ Keys \subseteq Seq(Nat) \ {<<>>}
                              /\ MaxItems \in Nat

\* An item is identified by its type and its position in the message; a key
\* that is not a string is <<>>.
Item  == [type : Types, at : 1..MaxItems]
Entry == [key : Keys, str : {TRUE}, val : Item]
         \cup [key : {<<>>}, str : {FALSE}, val : Item]
ListOf(n) == {q \in [1..n -> Item] : \A i \in 1..n : q[i].at = i}
\* A dictionary has a key once.
DictOf(n) == {q \in [1..n -> Entry] :
                /\ \A i \in 1..n : q[i].val.at = i
                /\ \A i, j \in 1..n : q[i].key = q[j].key => i = j}

\* A msgpack object: its type and its items.
Object(type, items) == [type |-> type, items |-> items]
EMPTY_ARGUMENTS    == Object("ARRAY", <<>>)
EMPTY_KW_ARGUMENTS == Object("MAP", <<>>)
Lists == {Object("ARRAY", l) : l \in UNION {ListOf(n) : n \in 0..MaxItems}}
Dicts == {Object("MAP", d) : d \in UNION {DictOf(n) : n \in 0..MaxItems}}

\* What the objects of result s may be, and the list or dictionary it reads as.
ListsOf(s) == IF Arguments(s) = EMPTY THEN {EMPTY_ARGUMENTS} ELSE Lists
DictsOf(s) == IF KwArguments(s) = EMPTY THEN {EMPTY_KW_ARGUMENTS} ELSE Dicts

Returns(v) == [how |-> "returns", what |-> v]
ThrowsA(e) == [how |-> "throws", what |-> e]
Fallback   == [type |-> "fallback", at |-> 0]
-----------------------------------------------------------------------------
(***************************************************************************)
(* The accessors                                                           *)
(***************************************************************************)

\* object::as<T>()
As(item, T) == IF item.type = T THEN Returns(item) ELSE ThrowsA("type_error")

number_of_arguments(list)    == IF list.type = "ARRAY" THEN Len(list.items) ELSE 0
number_of_kw_arguments(dict) == IF dict.type = "MAP" THEN Len(dict.items) ELSE 0

argument(list, index, T) ==
    IF list.type # "ARRAY" \/ Len(list.items) <= index
    THEN ThrowsA("out_of_range")
    ELSE As(list.items[index + 1], T)

\* A comparison over the length of the key looked for only.
Matches_Prefix(key, entry) == entry.str /\ IsPrefix(key, entry.key)

\* kv.key is a string, as long as the key and equal to it.
Matches(key, entry) == entry.str /\ Len(key) = Len(entry.key) /\ IsPrefix(key, entry.key)

\* The loop over the map: the value of the first entry that matches.
KwLookup(dict, key, T, otherwise) ==
    LET items == dict.items
        from[i \in 1..Len(items) + 1] ==
            IF i > Len(items) THEN otherwise
            ELSE IF Matches(key, items[i]) THEN As(items[i].val, T) ELSE from[i + 1]
    IN  IF dict.type # "MAP" THEN ThrowsA("type_error") ELSE from[1]

kw_argument(dict, key, T) == KwLookup(dict, key, T, ThrowsA("out_of_range"))

\* detail() of an invocation looks a key up in the details of the message.
detail(details, key, T) == kw_argument(details, key, T)

\* kw_argument_or(const std::string&, fallback) and kw_argument_or(const char*,
\* fallback), which throws the fallback.
kw_argument_or(dict, key, T)      == KwLookup(dict, key, T, Returns(Fallback))
kw_argument_or_char(dict, key, T) == KwLookup(dict, key, T, ThrowsA(Fallback))
-----------------------------------------------------------------------------
(***************************************************************************)
(* Property                                                                *)
(***************************************************************************)

\* The entries of a dictionary that have the key.
Having(dict, key) == {i \in DOMAIN dict.items : dict.items[i].str /\ dict.items[i].key = key}

\* Whatever list and dictionary a result refers to, given, copied or moved away,
\* its accessors are the list and the dictionary as functions.  An item comes
\* back at its own index and for its own type only, and out_of_range is thrown
\* beyond the last; an entry is found under its own key, whichever other keys
\* begin with the same letters, and refused for its type only; and a key that is
\* not there throws out_of_range, or gives the fallback: back from the one
\* kw_argument_or, and thrown by the other (wamp_call_result.ipp:189), although
\* both are documented to give the value "or the given fallback if no such key
\* was passed" (wamp_call_result.hpp:129).
AccessorsExact ==
    \A s \in alive, T \in Types :
        /\ \A list \in ListsOf(s), i \in 0..MaxItems :
              /\ argument(list, i, T) = ThrowsA("out_of_range")
                    <=> number_of_arguments(list) <= i
              /\ \A n \in DOMAIN list.items :
                    argument(list, i, T) = Returns(list.items[n])
                      <=> i = n - 1 /\ list.items[n].type = T
        /\ \A dict \in DictsOf(s), key \in Keys :
              LET hits == Having(dict, key)
                  found == {kw_argument(dict, key, T), kw_argument_or(dict, key, T),
                            kw_argument_or_char(dict, key, T), detail(dict, key, T)}
              IN  /\ hits # {} => found = {As(dict.items[i].val, T) : i \in hits}
                  /\ hits = {} => /\ kw_argument(dict, key, T) = ThrowsA("out_of_range")
                                  /\ detail(dict, key, T) = ThrowsA("out_of_range")
                                  /\ kw_argument_or(dict, key, T) = Returns(Fallback)
                                  /\ kw_argument_or_char(dict, key, T) = ThrowsA(Fallback)
                  /\ Cardinality(hits) <= number_of_kw_arguments(dict)
=============================================================================
