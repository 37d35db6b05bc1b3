----------------------------- MODULE DebugScript -----------------------------
(***************************************************************************)
(* What the injector types (ps2/injector.rs, ps2/scancode.rs) and what a   *)
(* host makes of it: the lines of a DEBUG session that enters Stage 0, the *)
(* scan codes of their characters, and -- external to the repository --    *)
(* the BIOS that turns scan codes back into characters and the DEBUG that  *)
(* obeys the lines.  A line is a sequence of characters; CR ends it.       *)
(***************************************************************************)
EXTENDS Integers, SequencesExt

CONSTANTS
    Image,   \* STAGE0_AT_BIN, STAGE0_XT_BIN: class -> bytes
    EChunk   \* E_CHUNK, bytes per `e' line

Stage0Origin == 256
CmdCapacity == 64      \* String<64>

\* type_script has one image for AT and PS/2; a .COM file fits a segment; the
\* comment of E_CHUNK: a line is `e ffff', three characters a byte, and CR.
ASSUME ScriptAssumption ==
    /\ Image \in [{"Xt", "At", "Ps2"} -> Seq(0 .. 255)] /\ Image["Ps2"] = Image["At"]
    /\ \A class \in DOMAIN Image : Len(Image[class]) <= 65536 - Stage0Origin
    /\ EChunk \in Nat \ {0} /\ 7 + 3 * EChunk <= CmdCapacity

Set2Table == {
    <<"a",28>>, <<"b",50>>, <<"c",33>>, <<"d",35>>, <<"e",36>>, <<"f",43>>,
    <<"g",52>>, <<"h",51>>, <<"i",67>>, <<"j",59>>, <<"k",66>>, <<"l",75>>,
    <<"m",58>>, <<"n",49>>, <<"o",68>>, <<"p",77>>, <<"q",21>>, <<"r",45>>,
    <<"s",27>>, <<"t",44>>, <<"u",60>>, <<"v",42>>, <<"w",29>>, <<"x",34>>,
    <<"y",53>>, <<"z",26>>, <<"0",69>>, <<"1",22>>, <<"2",30>>, <<"3",38>>,
    <<"4",37>>, <<"5",46>>, <<"6",54>>, <<"7",61>>, <<"8",62>>, <<"9",70>>,
    <<"SPACE",41>>, <<"CR",90>>, <<"TAB",13>>, <<"BS",102>>, <<"-",78>>,
    <<"=",85>>, <<"[",84>>, <<"]",91>>, <<"SEMICOLON",76>>, <<"'",82>>, <<"COMMA",65>>,
    <<".",73>>, <<"/",74>>, <<"GRAVE",14>>, <<"BACKSLASH",93>> }

Set1Table == {
    <<"q",16>>, <<"w",17>>, <<"e",18>>, <<"r",19>>, <<"t",20>>, <<"y",21>>,
    <<"u",22>>, <<"i",23>>, <<"o",24>>, <<"p",25>>, <<"a",30>>, <<"s",31>>,
    <<"d",32>>, <<"f",33>>, <<"g",34>>, <<"h",35>>, <<"j",36>>, <<"k",37>>,
    <<"l",38>>, <<"z",44>>, <<"x",45>>, <<"c",46>>, <<"v",47>>, <<"b",48>>,
    <<"n",49>>, <<"m",50>>, <<"1",2>>, <<"2",3>>, <<"3",4>>, <<"4",5>>,
    <<"5",6>>, <<"6",7>>, <<"7",8>>, <<"8",9>>, <<"9",10>>, <<"0",11>>,
    <<"SPACE",57>>, <<"CR",28>>, <<"TAB",15>>, <<"BS",14>>, <<"-",12>>, <<"=",13>>,
    <<"[",26>>, <<"]",27>>, <<"SEMICOLON",39>>, <<"'",40>>, <<"GRAVE",41>>,
    <<"BACKSLASH",43>>,
    <<"COMMA",51>>, <<".",52>>, <<"/",53>> }

\* Zero, no mapping, for a character without a row.
Lookup(table, c) == IF \E row \in table : row[1] = c
                    THEN (CHOOSE row \in table : row[1] = c)[2] ELSE 0
AsciiToSet2(c) == Lookup(Set2Table, c)
AsciiToSet1(c) == Lookup(Set1Table, c)

TypeScancodeAt(code) == <<code, 240, code>>
TypeScancodeXt(code) == <<code, IF code < 128 THEN code + 128 ELSE code>>

\* type_ascii: characters without a code are skipped.
TypeChar(class, c) ==
    LET code == IF class = "Xt" THEN AsciiToSet1(c) ELSE AsciiToSet2(c)
    IN  IF code = 0 THEN <<>>
        ELSE IF class = "Xt" THEN TypeScancodeXt(code) ELSE TypeScancodeAt(code)
TypeAscii(class, line) == FlattenSeq([i \in DOMAIN line |-> TypeChar(class, line[i])])

-----------------------------------------------------------------------------
Digits == <<"0", "1", "2", "3", "4", "5", "6", "7", "8", "9",
            "a", "b", "c", "d", "e", "f">>
Hex02(b) == <<Digits[b \div 16 + 1], Digits[(b % 16) + 1]>>
Hex(n) ==
    LET all == Hex02(n \div 256) \o Hex02(n % 256)
        first == Min({i \in 1 .. 4 : all[i] # "0"} \cup {4})
    IN SubSeq(all, first, 4)

\* write! into the command adds a piece that fits and drops one that does not.
Written(cmd, piece) ==
    IF Len(cmd) + Len(piece) > CmdCapacity THEN cmd ELSE cmd \o piece

Chunks(bin) == (Len(bin) + EChunk - 1) \div EChunk
Chunk(bin, k) == SubSeq(bin, (k - 1) * EChunk + 1, Min({k * EChunk, Len(bin)}))

\* Mutant: the address of the chunk after this one
ELine_next(bin, k) ==
    LET bytes == Chunk(bin, k)
        pieces == << <<"e", "SPACE">> \o Hex(Stage0Origin + k * EChunk) >>
                  \o [i \in DOMAIN bytes |-> <<"SPACE">> \o Hex02(bytes[i])]
                  \o << <<"CR">> >>
    IN FoldLeft(Written, <<>>, pieces)

ELine(bin, k) ==
    LET bytes == Chunk(bin, k)
        pieces == << <<"e", "SPACE">> \o Hex(Stage0Origin + (k - 1) * EChunk) >>
                  \o [i \in DOMAIN bytes |-> <<"SPACE">> \o Hex02(bytes[i])]
                  \o << <<"CR">> >>
    IN FoldLeft(Written, <<>>, pieces)

\* type_debug_stage0: launch DEBUG, enter the image, run it.
Script(class) ==
    LET bin == Image[class]
    IN << <<"d", "e", "b", "u", "g", "CR">> >>
       \o [k \in 1 .. Chunks(bin) |-> ELine(bin, k)]
       \o << <<"g", "SPACE">> \o Hex(Stage0Origin) \o <<"CR">> >>

-----------------------------------------------------------------------------
\* The host: the characters of the makes among the keys of a line, ...
Char(table, code) == IF \E row \in table : row[2] = code
                     THEN (CHOOSE row \in table : row[2] = code)[1] ELSE "?"
Decoded(hostIsXt, keys) ==
    LET table == IF hostIsXt THEN Set1Table ELSE Set2Table
        IsMake(i) == IF hostIsXt THEN keys[i] < 128
                     ELSE keys[i] # 240 /\ ~(i > 1 /\ keys[i - 1] = 240)
    IN FlattenSeq([i \in DOMAIN keys |-> IF IsMake(i) THEN <<Char(table, keys[i])>> ELSE <<>>])

\* ... its words, and the number a hexadecimal word stands for.
Words(chars) ==
    LET Put(ws, c) == IF c \in {"SPACE", "CR"} THEN Append(ws, <<>>)
                      ELSE [ws EXCEPT ![Len(ws)] = Append(@, c)]
    IN FoldLeft(Put, << <<>> >>, chars)
Value(word) ==
    LET Digit(c) == (CHOOSE d \in 1 .. 16 : Digits[d] = c) - 1
    IN FoldLeft(LAMBDA n, c : 16 * n + Digit(c), 0, word)

\* DEBUG: where a host stands, and its memory, after a line.  What is typed
\* behind unfinished keys, or in the other set's scan codes, is no command.
Enter(mem, at, words) ==
    LET bytes == {i \in DOMAIN words : words[i] # <<>>}
    IN [a \in DOMAIN mem \cup {at + i - 1 : i \in bytes} |->
            IF a - at + 1 \in bytes THEN Value(words[a - at + 1]) ELSE mem[a]]

HostReads(host, words) ==
    IF host.dirty THEN [host EXCEPT !.dirty = FALSE] ELSE
    CASE host.runs = "dos" /\ words[1] = <<"d", "e", "b", "u", "g">> ->
            [host EXCEPT !.runs = "debug"]
      [] host.runs = "debug" /\ words[1] = <<"e">> ->
            [host EXCEPT !.mem = Enter(@, Value(words[2]), SubSeq(words, 3, Len(words)))]
      [] host.runs = "debug" /\ words[1] = <<"g">> -> [host EXCEPT !.runs = "stage0"]
      [] OTHER -> host

\* The words a host reads of each line, if it is of the class it is typed for.
WordsRead ==
    [class \in {"Xt", "At", "Ps2"} |->
        [i \in DOMAIN Script(class) |->
            Words(Decoded(class = "Xt", TypeAscii(class, Script(class)[i])))]]

HostTyped(host, class, i) ==
    IF host.xt = (class = "Xt") THEN HostReads(host, WordsRead[class][i])
                                ELSE [host EXCEPT !.dirty = TRUE]
=============================================================================
