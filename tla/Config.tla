-------------------------------- MODULE Config --------------------------------
(***************************************************************************)
(* The configuration operations of src/api/config.go: GetParser,           *)
(* GetListener and IsValid. Strings are sequences of characters from       *)
(* Chars; a configuration field is a string. The state is an input to the  *)
(* three operations, chosen in Init and never changed: each property       *)
(* compares an operation with a reference definition over every input.     *)
(***************************************************************************)
EXTENDS Naturals, Sequences, SequencesExt

CONSTANTS
    Chars,      \* the characters of strings; contains Dot
    Dot,        \* "."
    MaxLen,     \* bound on the length of a parser string
    Names,      \* listener names
    Parsers,    \* parser strings that listeners are configured with
    Ports,      \* listener ports
    MaxListeners,
    Fields      \* the values a required field of MinionConfig may take

Strings(n) == SeqOf(Chars, n)

Empty == <<>>

Nil == [name |-> "nil"]

Listener == [name : Names, parser : Parsers, port : Ports]

VARIABLES
    parser,     \* listener.Parser given to GetParser
    listeners,  \* cfg.Listeners, in order
    cfg         \* the required fields of MinionConfig

vars == <<parser, listeners, cfg>>

Config == [id : Fields, location : Fields, brokerUrl : Fields]

TypeOK ==
    /\ parser \in Strings(MaxLen)
    /\ listeners \in SeqOf(Listener, MaxListeners)
    /\ cfg \in Config

-----------------------------------------------------------------------------
(* strings.Split(s, sep) for a one-character sep: the segments between the *)
(* separators, with an empty segment at each end that is a separator.       *)
Split(s, sep) ==
    LET step(acc, c) ==
            IF c = sep THEN Append(acc, Empty)
            ELSE [acc EXCEPT ![Len(acc)] = Append(@, c)]
    IN  FoldLeft(step, <<Empty>>, s)

GetParserFirst(p) ==
    IF p = Empty THEN Empty ELSE Split(p, Dot)[1]

(* GetParser (lines 17-23): "" for an empty parser, otherwise the last     *)
(* dot-separated section.                                                  *)
GetParser(p) ==
    IF p = Empty THEN Empty ELSE Last(Split(p, Dot))

RECURSIVE GetListenerFromLast(_, _, _)
GetListenerFromLast(ls, name, i) ==
    IF i > Len(ls) THEN Nil
    ELSE LET later == GetListenerFromLast(ls, name, i + 1) IN
         IF later = Nil /\ ls[i].name = name THEN ls[i] ELSE later

(* GetListener (lines 39-46): the range loop from index i on, returning a  *)
(* copy of the first listener whose Name matches, nil when none does.       *)
RECURSIVE GetListenerFrom(_, _, _)
GetListenerFrom(ls, name, i) ==
    IF i > Len(ls) THEN Nil
    ELSE IF ls[i].name = name THEN ls[i]
    ELSE GetListenerFrom(ls, name, i + 1)

GetListener(ls, name) == GetListenerFrom(ls, name, 1)

IsValidNoBroker(c) ==
    CASE c.id = Empty       -> "Minion ID required"
      [] c.location = Empty -> "Location required"
      [] OTHER              -> "ok"

(* IsValid (lines 54-65): the error of the first empty required field, in  *)
(* the order ID, Location, BrokerURL; nil (here "ok") when none is empty.   *)
IsValid(c) ==
    CASE c.id = Empty        -> "Minion ID required"
      [] c.location = Empty  -> "Location required"
      [] c.brokerUrl = Empty -> "Broker URL required"
      [] OTHER               -> "ok"

Init ==
    /\ parser \in Strings(MaxLen)
    /\ listeners \in SeqOf(Listener, MaxListeners)
    /\ cfg \in Config

(* The operations read the configuration and never change it.             *)
Next == UNCHANGED vars

Spec == Init /\ [][Next]_vars

-----------------------------------------------------------------------------
(* Reference definitions, from spec.md §2 and §4.7.                         *)

(* The final dotted segment: the longest suffix without a dot.             *)
FinalSegment(p) ==
    CHOOSE t \in Suffixes(p) :
        /\ Dot \notin ToSet(t)
        /\ \A u \in Suffixes(p) : Dot \notin ToSet(u) => Len(u) <= Len(t)

(* The fields Config requires, in the order they are reported.             *)
Required == <<"id", "location", "brokerUrl">>
Message == [id |-> "Minion ID required", location |-> "Location required",
            brokerUrl |-> "Broker URL required"]

(* GetParser yields the parser's final dotted segment, the name listener   *)
(* dispatch matches against a module's GetID (spec §4.7).                  *)
GetParserIsFinalSegment ==
    GetParser(parser) = FinalSegment(parser)

(* GetListener finds a listener exactly when one has the name, and then    *)
(* the first one in configuration order (spec scenario 1).                 *)
GetListenerIsFirstMatch ==
    \A name \in Names :
        LET found == {i \in 1..Len(listeners) : listeners[i].name = name} IN
        IF found = {} THEN GetListener(listeners, name) = Nil
        ELSE \E i \in found :
                /\ \A j \in found : i <= j
                /\ GetListener(listeners, name) = listeners[i]

(* IsValid accepts a configuration exactly when ID, Location and BrokerURL *)
(* are non-empty, and otherwise reports the first missing one (spec §2).   *)
IsValidRequiresFields ==
    LET missing == {k \in 1..Len(Required) : cfg[Required[k]] = Empty} IN
    IF missing = {} THEN IsValid(cfg) = "ok"
    ELSE \E k \in missing :
            /\ \A j \in missing : k <= j
            /\ IsValid(cfg) = Message[Required[k]]

=============================================================================
