----------------------------- MODULE LogParser -----------------------------
(***************************************************************************)
(* How a line of the log becomes a log entry: parse_combat_log_line and    *)
(* what it calls (swtor_log_parser.cpp), in front of the codec that sends  *)
(* the entry to the server.                                                *)
(*                                                                         *)
(* A line is a sequence of characters, in which a word of a name is one    *)
(* character.  Positions are counts of the characters before them.  A      *)
(* reader is a record of where the parser is (from_), whether it has not   *)
(* thrown, what it read last, and what it has changed: the entry and the   *)
(* two databases, which keep their changes when the line fails later.      *)
(***************************************************************************)
EXTENDS EntryCodec, PlayerDb

CONSTANTS
    Sheets,  \* what the game may write in a line
    Databases, \* what player_db may be when a line is read
    NoSheet, \* there is no line
    IntValues, \* values of an int (2 ^ 32)
    IdValues   \* values of an id (2 ^ 64)

VARIABLES
    sheet,   \* what the game wrote
    line,    \* the characters of it that are in the line
    players, \* player_db
    strings  \* string_db

lineVars == <<sheet, line, players, strings>>

ASSUME ValuesAssumption == IntValues \in Nat \ {0} /\ IdValues \in Nat \ {0}
ASSUME ValuesHaveTheirBits == IntValues = 2 ^ IntBits /\ IdValues = 2 ^ IdBits
ASSUME DatabasesAssumption == \A db \in Databases : IsDatabase(db)

Space == " "
LBrace == "{"
RBrace == "}"
Digits == <<"0", "1", "2", "3", "4", "5", "6", "7", "8", "9">>
DigitValue == [c \in ToSet(Digits) |-> CHOOSE d \in 0..9 : Digits[d + 1] = c]
-----------------------------------------------------------------------------
(* The helpers *)

\* What is at to_ is the end of the line.
At(r) == IF r.at < Len(line) THEN line[r.at + 1] ELSE "end"
Text(from, to) == SubSeq(line, from + 1, to)
Jump(r, k) == [r EXCEPT !.at = k]
Step(r) == Jump(r, r.at + 1)
Fail(r) == [r EXCEPT !.ok = FALSE]

\* expect_char
Expect(r, c) == IF At(r) = c THEN Step(r) ELSE Fail(r)

\* find_char
Find(from, to, c) == Min({k \in from..to : k = to \/ line[k + 1] = c} \cup {to})

\* skip_spaces
SkipSpaces(r) == Jump(r, Min({k \in r.at..Len(line) : k = Len(line) \/ line[k + 1] # Space}))

\* The digits at r.
NumberEnd(r) ==
    Min({k \in r.at..Len(line) : k = Len(line) \/ line[k + 1] \notin ToSet(Digits)})

\* The result after each digit: every digit, the last one too, is followed by a
\* multiplication, and a product that does not fit wraps around.
Products(text, values) ==
    LET product[k \in 0..Len(text)] ==
            IF k = 0 THEN 0 ELSE ((product[k - 1] + DigitValue[text[k]]) * 10) % values
    IN  product
Product(r, values) ==
    LET text == Text(r.at, NumberEnd(r)) IN Products(text, values)[Len(text)]

\* parse_number: the division undoes the last multiplication.
Number(r, values) == [r EXCEPT !.at = NumberEnd(r), !.value = Product(r, values) \div 10]

SignedNumber(r) ==
    LET minus == At(r) = "-"
        digits == IF minus THEN Step(r) ELSE r
        product == Product(digits, IntValues)
        size == IF product < IntValues \div 2 THEN product \div 10
                ELSE - ((IntValues - product) \div 10)
    IN  [r EXCEPT !.at = NumberEnd(digits), !.value = IF minus THEN - size ELSE size]

\* register_name
RegisterName(r, from, to) ==
    IF ~ r.ok THEN r
    ELSE [r EXCEPT !.value = PlayerId(r.players, Text(from, to)),
                   !.players = AfterGetPlayerId(r.players, Text(from, to))]

\* string_db::set keeps the first string of an id.
SetString(db, id, string) ==
    [i \in DOMAIN db \cup {id} |-> IF i \in DOMAIN db THEN db[i] ELSE string]

\* register_string
RegisterString(r, from, to) ==
    IF r.ok /\ from < to THEN [r EXCEPT !.strings = SetString(r.strings, r.value, Text(from, to))] ELSE r

\* A name from start on, the space and the brace behind it, and its id.  The brace
\* is looked for up to far, and must not be at near.
NamedId(r, start, far, near) ==
    LET brace == Find(start, far, LBrace)
    IN  IF brace \in {far, near} THEN Fail(r)
        ELSE RegisterString(Number(Jump(r, brace + 1), IdValues), start, brace - 1)

\* Slip: the first bracket ends the name.
ClosingFirst(from) == Find(from, Len(line), "]")

\* The brackets that are open after each character of a text.
Level(text) ==
    LET level[k \in 0..Len(text)] ==
            IF k = 0 THEN 0
            ELSE level[k - 1] + (IF text[k] = "[" THEN 1 ELSE IF text[k] = "]" THEN -1 ELSE 0)
    IN  level

\* The bracket that closes the one in front of from.
Closing(from) ==
    LET text == Text(from, Len(line))
        level == Level(text)
    IN  from + Min({k \in 0..Len(text) :
                      k = Len(text) \/ (text[k + 1] = "]" /\ level[k] = 0)})

Put(r, f) == [r EXCEPT !.entry = [r.entry EXCEPT ![f] = r.value]]

\* A crit is marked by a star.
Crit(r, flag) ==
    LET flags == r.entry["entry_flags"] + flag
    IN  IF At(r) = "*" THEN [Step(r) EXCEPT !.entry = [r.entry EXCEPT !["entry_flags"] = flags]]
        ELSE r
-----------------------------------------------------------------------------
(* The blocks of a line *)

ReadTime(r0) ==
    LET hours == Number(Expect(r0, "["), IntValues)
        minutes == Number(Expect(hours, ":"), IntValues)
        seconds == Number(Expect(minutes, ":"), IntValues)
        millis == Number(Expect(seconds, "."), IntValues)
        time == ((hours.value * 60 + minutes.value) * 60 + seconds.value) * 1000 + millis.value
    IN  Expect(Put([millis EXCEPT !.value = time], "time"), "]")

\* read_entity_name: nobody, a player, a player's companion or a mob.
ReadEntity(r0, name, minion, id) ==
    LET r == Expect(r0, "[")
        end == Min({Closing(r.at) + 1, Len(line)})
        colon == Find(r.at + 1, end, ":")
        player == Put(RegisterName(Step(r), r.at + 1, IF colon = end THEN end - 1 ELSE colon), name)
        companion == Put(NamedId(player, colon + 1, Len(line), end), minion)
        mob == Put(NamedId(r, r.at, Len(line), end), name)
        number == Number(Expect(SkipSpaces(Expect(mob, RBrace)), ":"), IdValues)
    IN  IF At(r) = "]" THEN Step(r)
        ELSE Jump(IF At(r) # "@" THEN Put(number, id)
                  ELSE IF colon = end THEN player ELSE companion, end)

\* read_localized_string between two characters.
ReadLocalized(r0, open, close, f) ==
    LET r == SkipSpaces(Expect(r0, open))
        end == IF close = "]" THEN Closing(r.at) ELSE Find(r.at, Len(line), close)
        last == Expect(Jump(r, end), close)
    IN  IF At(r) = close THEN Step(r)
        ELSE Jump(Put(NamedId(last, r.at, last.at, last.at), f), last.at)

\* The colon is read twice: it ends the action and begins the type.
ReadEffect(r0) ==
    LET action == ReadLocalized(r0, "[", ":", "effect_action")
    IN  IF ~ action.ok THEN action
        ELSE ReadLocalized(Jump(action, action.at - 1), ":", "]", "effect_type")

\* A name and an id in braces, up to the end of the line.
ReadType(r, f) == Expect(Put(NamedId(r, r.at, Len(line), Len(line)), f), RBrace)

\* parse_effect_value
ReadValue(r0) ==
    LET r == Expect(r0, "(")
        value == SkipSpaces(Crit(Put(SignedNumber(r), "effect_value"), 1))
        type == SkipSpaces(IF At(value) = "(" THEN value ELSE ReadType(value, "effect_value_type"))
        dash == IF At(type) # "-" THEN type
                ELSE SkipSpaces(ReadType(SkipSpaces(Step(type)), "effect_value_type2"))
        second == SkipSpaces(Crit(Put(SignedNumber(SkipSpaces(Step(dash))), "effect_value2"), 2))
        both == IF At(dash) # "(" THEN dash
                ELSE Expect(ReadType(second, "effect_value_type2"), ")")
    IN  IF At(r) = ")" THEN Step(r)
        ELSE IF At(value) = ")" THEN Step(value)
        ELSE IF At(value) = "-" /\ At(Step(value)) = ")" THEN Jump(value, value.at + 2)
        ELSE Expect(both, ")")

ReadThreat(r) ==
    IF At(r) # "<" THEN r ELSE Expect(Put(SignedNumber(Step(r)), "effect_thread"), ">")

Blank == [f \in Fields |-> 0]

\* parse_combat_log_line
Parsed ==
    LET start == [at |-> 0, ok |-> TRUE, value |-> 0, entry |-> Blank,
                  players |-> players, strings |-> strings]
        time == ReadTime(SkipSpaces(start))
        src == ReadEntity(SkipSpaces(time), "src", "src_minion", "src_id")
        dst == ReadEntity(SkipSpaces(src), "dst", "dst_minion", "dst_id")
        ability == ReadLocalized(SkipSpaces(dst), "[", "]", "ability")
        effect == ReadEffect(SkipSpaces(ability))
    IN  ReadThreat(SkipSpaces(ReadValue(SkipSpaces(effect))))
-----------------------------------------------------------------------------
(* The game's side: the formats of the comments in parse_combat_log_line *)

\* A number in digits, as many of them as it takes to divide it down to 0.
NatDecimal(n) ==
    LET left[k \in 0..n + 1] == IF k = 0 THEN n ELSE left[k - 1] \div 10
        size == Min({k \in 1..n + 1 : left[k] = 0})
    IN  [i \in 1..size |-> Digits[(left[size - i] % 10) + 1]]
Decimal(n) == IF n < 0 THEN <<"-">> \o NatDecimal(-n) ELSE NatDecimal(n)

Named(x) == x.name \o <<Space, LBrace>> \o Decimal(x.id) \o <<RBrace>>

Entity(x) ==
    <<"[">> \o (CASE x.kind = "nobody" -> << >>
                  [] x.kind = "player" -> <<"@">> \o x.name
                  [] x.kind = "companion" -> <<"@">> \o x.name \o <<":">> \o Named(x.minion)
                  [] x.kind = "mob" -> Named(x) \o <<":">> \o Decimal(x.number))
    \o <<"]", Space>>

Time(t) ==
    <<"[", "0">> \o Decimal(t[1]) \o <<":">> \o Decimal(t[2]) \o <<":">> \o Decimal(t[3])
    \o <<".">> \o Decimal(t[4]) \o <<"]", Space>>

Ability(x) == <<"[">> \o (IF x = NoSheet THEN << >> ELSE Named(x)) \o <<"]", Space>>
Effect(action, type) ==
    <<"[">> \o Named(action) \o <<":", Space>> \o Named(type) \o <<"]", Space>>

Amount(value, crit) == Decimal(value) \o (IF crit THEN <<"*">> ELSE << >>)
Type(x) == IF x = NoSheet THEN << >> ELSE <<Space>> \o Named(x)
Second(x) ==
    IF x = NoSheet THEN << >>
    ELSE <<Space, "(">> \o Amount(x.value, x.crit) \o <<Space>> \o Named(x.type) \o <<")">>
Value(s) ==
    <<"(">> \o Amount(s.value, s.crit) \o Type(s.value_type) \o Second(s.second) \o <<")">>

\* Everything but the threat.
Body(s) ==
    Time(s.time) \o Entity(s.src) \o Entity(s.dst) \o Ability(s.ability)
    \o Effect(s.action, s.type) \o Value(s)
WholeLine(s) == Body(s) \o <<Space, "<">> \o Decimal(s.threat) \o <<">">>

\* Names: every bracket in them is closed, and they do not begin like something else.
IsName(w) ==
    /\ w \in Seq(STRING) /\ w # << >>
    /\ w[1] \notin {Space, "]", "@", "(", ")", "-"}
    /\ \A i \in 1..Len(w) : w[i] # LBrace
    /\ \A i \in 0..Len(w) : Level(w)[i] >= 0
    /\ Level(w)[Len(w)] = 0
NoColon(w) == \A i \in 1..Len(w) : w[i] # ":"

\* Numbers in the last tenth of their type are beyond parse_number.
IsNumber(n, values) == n \in Nat /\ n * 10 < values

IsNamed(x) == IsName(x.name) /\ IsNumber(x.id, IdValues)

IsEntity(x) ==
    \/ x.kind = "nobody"
    \/ x.kind \in {"player", "companion"} /\ IsName(x.name) /\ NoColon(x.name) /\ x.name # NoName
       /\ (x.kind = "companion" => IsNamed(x.minion))
    \/ x.kind = "mob" /\ IsNamed(x) /\ IsNumber(x.number, IdValues)

\* What has a name and an id in a line.
NamedIn(x) == CASE x.kind = "companion" -> {x.minion} [] x.kind = "mob" -> {x} [] OTHER -> {}
Things(s) ==
    {s.action, s.type} \cup ({s.ability, s.value_type} \ {NoSheet})
    \cup (IF s.second = NoSheet THEN {} ELSE {s.second.type})
    \cup NamedIn(s.src) \cup NamedIn(s.dst)

\* What the game writes: an id stands for one name.
IsSheet(s) ==
    /\ \A i \in 1..4 : IsNumber(s.time[i], IntValues)
    /\ IsEntity(s.src) /\ IsEntity(s.dst)
    /\ \A x \in {s.ability, s.value_type} \ {NoSheet} : IsNamed(x)
    /\ IsNamed(s.action) /\ NoColon(s.action.name) /\ IsNamed(s.type)
    /\ s.value \in Int /\ s.crit \in BOOLEAN /\ s.threat \in Int
    /\ s.second # NoSheet =>
          s.second.value \in Int /\ s.second.crit \in BOOLEAN /\ IsNamed(s.second.type)
    /\ \A x, y \in Things(s) : x.id = y.id => x.name = y.name
ASSUME SheetsAssumption == \A s \in Sheets : IsSheet(s)
-----------------------------------------------------------------------------
\* A line as the game writes it, or the beginning of one.
LogInit ==
    /\ stage = "written"
    /\ sheet \in Sheets
    /\ \E n \in 1..Len(WholeLine(sheet)) : line = SubSeq(WholeLine(sheet), 1, n)
    /\ players \in Databases
    /\ strings = << >>
    /\ entry = Blank /\ bytes = << >> /\ result = Blank /\ taken = 0

\* An entry of which only the way to the server matters.
EntryInit ==
    /\ CodecInit
    /\ sheet = NoSheet /\ line = << >> /\ players = EmptyDb /\ strings = << >>

ParseLine ==
    /\ stage = "written"
    /\ players' = Parsed.players
    /\ strings' = Parsed.strings
    /\ IF Parsed.ok THEN stage' = "parsed" /\ entry' = Parsed.entry
       ELSE stage' = "refused" /\ UNCHANGED entry
    /\ UNCHANGED <<sheet, line, bytes, result, taken>>

LineInit == LogInit \/ EntryInit
LineNext == ParseLine \/ (CodecNext /\ UNCHANGED lineVars)

LineSpec == LineInit /\ [][LineNext]_<<codecVars, lineVars>>
-----------------------------------------------------------------------------
\* The signed numbers.
Readable(s) ==
    \A n \in {s.value, s.threat} \cup (IF s.second = NoSheet THEN {} ELSE {s.second.value}) :
        n * 10 < IntValues \div 2 /\ -n * 10 < IntValues \div 2

\* A name of the line: its id is in the entry, and is translated to it.
Names(x, id, ss) == id = x.id /\ ss[id] = x.name
MayName(x, id, ss) == IF x = NoSheet THEN id = 0 ELSE Names(x, id, ss)
Is(x, name, minion, number, ps, ss) ==
    CASE x.kind = "nobody" -> name = 0 /\ minion = 0 /\ number = 0
      [] x.kind = "player" -> ps[name] = x.name /\ minion = 0 /\ number = 0
      [] x.kind = "companion" -> ps[name] = x.name /\ Names(x.minion, minion, ss) /\ number = 0
      [] x.kind = "mob" -> Names(x, name, ss) /\ minion = 0 /\ number = x.number

\* The entry says what the game wrote in the formats that parse_combat_log_line
\* names, brackets within names included, and the ids are those of the names in the
\* databases.  A line that was cut off is refused, except when only its threat is
\* missing: its entry is that of the whole line, without threat.
Says(s, e, threat, ps, ss) ==
    /\ e["time"] = ((s.time[1] * 60 + s.time[2]) * 60 + s.time[3]) * 1000 + s.time[4]
    /\ Is(s.src, e["src"], e["src_minion"], e["src_id"], ps, ss)
    /\ Is(s.dst, e["dst"], e["dst_minion"], e["dst_id"], ps, ss)
    /\ MayName(s.ability, e["ability"], ss)
    /\ Names(s.action, e["effect_action"], ss) /\ Names(s.type, e["effect_type"], ss)
    /\ e["effect_value"] = s.value /\ e["effect_thread"] = threat
    /\ MayName(s.value_type, e["effect_value_type"], ss)
    /\ IF s.second = NoSheet
       THEN e["effect_value2"] = 0 /\ e["effect_value_type2"] = 0
       ELSE /\ e["effect_value2"] = s.second.value
            /\ Names(s.second.type, e["effect_value_type2"], ss)
    /\ e["entry_flags"] = (IF s.crit THEN 1 ELSE 0)
                          + (IF s.second # NoSheet /\ s.second.crit THEN 2 ELSE 0)
LinesAreRead ==
    /\ stage = "refused" => Len(line) < Len(WholeLine(sheet))
    /\ stage = "parsed" /\ line # << >> =>
          /\ Len(line) >= Len(Body(sheet))
          /\ Readable(sheet) =>
                Says(sheet, entry, IF line = WholeLine(sheet) THEN sheet.threat ELSE 0,
                     players, strings)
=============================================================================
