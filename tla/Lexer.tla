------------------------------- MODULE Lexer -------------------------------
(***************************************************************************)
(* The scanner (src/compiler/lexer.cpp): tokenize(code) splits a text, a   *)
(* TLA+ string, into tokens with their lines and columns.                  *)
(* One lexer lives through a session of the shell and keeps counting       *)
(* lines.  Columns are a size_t: what is below zero here is close to 2^64  *)
(* there.                                                                  *)
(***************************************************************************)
EXTENDS Integers, Sequences, FiniteSets, TLC

VARIABLES content,    \* the text
          at,         \* position in it, counted from 1
          line, col,  \* number of the line, and of the character in it
          tokens, lexed,      \* the tokens so far; tokenize has returned
          lex_err     \* the columns of the carets; has_err if there are any

lvars == <<content, at, line, col, tokens, lexed, lex_err>>

CharsOf(word) == {SubSeq(word, k, k) : k \in 1 .. Len(word)}
Letters == CharsOf("abcdefghijklmnopqrstuvwxyzABCDEFGHIJKLMNOPQRSTUVWXYZ")
Digits == CharsOf("0123456789")
Space == {" ", "\n"}

\* the function that maps the first of each pair to the second
Table(pairs) == [x \in {p[1] : p \in pairs} |-> (CHOOSE p \in pairs : p[1] = x)[2]]
Keywords == Table(
    {<<"func", "KW_FUNC">>, <<"return", "KW_RETURN">>, <<"if", "KW_IF">>,
     <<"else", "KW_ELSE">>, <<"let", "KW_LET">>, <<"__VMC", "KW_VMC">>,
     <<"module", "KW_MODULE">>, <<"use", "KW_USE">>, <<"loop", "KW_LOOP">>,
     <<"break", "KW_BREAK">>, <<"continue", "KW_CONTINUE">>})
\* symbols of one character and of two
OneChar == Table(
    {<<"+", "OPER_PLUS">>, <<"-", "OPER_MINUS">>, <<"*", "OPER_MUL">>,
     <<"/", "OPER_DIV">>, <<"%", "OPER_MOD">>, <<"^", "OPER_POW">>, <<"=", "ASSIGN">>,
     <<">", "GT">>, <<"<", "LT">>, <<":", "COLON">>, <<"(", "LPAREN">>,
     <<")", "RPAREN">>, <<"{", "LBRACE">>, <<"}", "RBRACE">>, <<"[", "LBRACK">>,
     <<"]", "RBRACK">>, <<",", "COMMA">>, <<"!", "NOT">>, <<".", "DOT">>})
TwoChar == Table(
    {<<"==", "EQ">>, <<">=", "GE">>, <<"<=", "LE">>, <<"!=", "NE">>,
     <<"::", "COL_COLON">>, <<"|>", "PIPE">>, <<"||", "OR">>, <<"&&", "AND">>})
Symbols == DOMAIN OneChar \cup {"|", "&"}

valid_pos(p) == p <= Len(content)
Char(p) == IF valid_pos(p) THEN SubSeq(content, p, p) ELSE "NUL"

\* the first position from p on whose character is not in S
After(p, S) ==
    CHOOSE q \in p .. Len(content) + 1 :
        Char(q) \notin S /\ \A k \in p .. q - 1 : Char(k) \in S

\* advance() up to p: a line begins where a newline is stepped on
LineAt(p) == line + Cardinality({k \in at + 1 .. p : Char(k) = "\n"})
\* the column there: 1 on a newline that is stepped on
ColumnAt(p) == Cardinality({k \in 1 .. p : \A n \in k + 1 .. p : Char(n) # "\n"})

\* the number that digits spell, underscores left out
Value(num) ==
    LET value[n \in Nat] ==
          IF n = 0 THEN 0
          ELSE LET last == SubSeq(num, n, n)
               IN  IF last = "_" THEN value[n - 1]
                   ELSE 10 * value[n - 1] + (CHOOSE d \in 0 .. 9 : ToString(d) = last)
    IN  value[Len(num)]

\* where a string that has n characters before p is closed, 0 if it is not,
\* and how many characters it has; none if the text ends in an escape
Closing(p, n) ==
    LET closing[q \in Nat, k \in Nat] ==
          CASE q = Len(content) + 1 -> <<0, k>>
            [] q = Len(content) + 2 -> <<0, 0>>
            [] Char(q) = "\"" -> <<q, k>>
            [] Char(q) = "\\" -> closing[q + 2, k + 1]
            [] OTHER -> closing[q + 1, k + 1]
    IN  closing[p, n]

-----------------------------------------------------------------------------
Start == After(at, Space)
Scanning == ~lexed /\ valid_pos(at)

Token(type, text, l, c) == [type |-> type, text |-> text, line |-> l, col |-> c]
\* where its scan begins; or in front of p, where it ends, by its size
From(type, text) == Token(type, text, LineAt(Start), ColumnAt(Start))
UpTo(p, type, text, size) == Token(type, text, LineAt(p), ColumnAt(p) - size)

\* next() returns a token and stops at position p
Emits(token, p) ==
    /\ tokens' = Append(tokens, token)
    /\ at' = p /\ line' = LineAt(p) /\ col' = ColumnAt(p)
    /\ UNCHANGED <<content, lexed, lex_err>>

\* words and numbers carry the line and the column they begin at
ScanWord ==
    /\ Scanning /\ Char(Start) \in Letters \cup {"_"}
    /\ LET end == After(Start, Letters \cup Digits \cup {"_"})
           word == SubSeq(content, Start, end - 1)
       IN  Emits(From(IF word \in DOMAIN Keywords THEN Keywords[word] ELSE "IDENTIFIER",
                      word), end)

ScanNumber ==
    /\ Scanning /\ Char(Start) \in Digits
    /\ LET end == After(Start, Digits \cup {"_"})
       IN  Emits(From("NUM_LITERAL", Value(SubSeq(content, Start, end - 1))), end)

\* a symbol carries the line reached behind it: the next one if a newline
\* follows; half of a two-character symbol is not a token
ScanSymbol ==
    /\ Scanning /\ Char(Start) \in Symbols
    /\ LET one == Char(Start)
           two == one \o Char(Start + 1)
           p == Start + 1
       IN  \/ /\ two \in DOMAIN TwoChar
              /\ Emits(UpTo(p + 1, TwoChar[two], two, 1), p + 1)
           \/ /\ two \notin DOMAIN TwoChar /\ one \in DOMAIN OneChar
              /\ Emits(UpTo(p, OneChar[one], one, 1), p)
           \/ /\ two \notin DOMAIN TwoChar /\ one \notin DOMAIN OneChar
              /\ Emits(UpTo(p, "UNKNOWN", "", 1), p)

\* likewise a string, whose column is below zero when it does not fit into
\* the line reached; one that is not closed takes the rest of the text
ScanString ==
    /\ Scanning /\ Char(Start) = "\""
    /\ LET close == Closing(Start + 1, 0)
           size == close[2]
           p == IF close[1] = 0 THEN Len(content) + 1 ELSE close[1] + 1
       IN  Emits(UpTo(p, IF close[1] = 0 THEN "UNKNOWN" ELSE "STRING_LITERAL",
                      size, size + 1), p)

\* a comment ends behind its newline; without one, two characters behind the
\* text are read, any of which may be a newline
ScanComment ==
    /\ Scanning /\ Char(Start) = "#"
    /\ LET ends == {p \in Start .. Len(content) : Char(p) = "\n"}
       IN  \/ \E p \in ends : /\ \A q \in ends : p <= q
                              /\ Emits(UpTo(p + 1, "COMMENT", "", 0), p + 1)
           \/ /\ ends = {}
              /\ \E newlines \in SUBSET {1, 2} :
                    /\ line' = LineAt(Len(content)) + Cardinality(newlines)
                    /\ col' = CASE 2 \in newlines -> 1
                                [] newlines = {1} -> 2
                                [] OTHER -> ColumnAt(Len(content) + 1) + 2
                    /\ tokens' = Append(tokens, Token("COMMENT", "", line', col'))
              /\ at' = Len(content) + 3
              /\ UNCHANGED <<content, lexed, lex_err>>

Others == {" ", "\n", "\"", "#", "_"} \cup Letters \cup Digits \cup Symbols
ScanUnknown ==
    /\ Scanning /\ valid_pos(Start) /\ Char(Start) \notin Others
    /\ Emits(From("UNKNOWN", ""), Start + 1)

\* only spaces are left
ScanEnd ==
    /\ Scanning /\ ~valid_pos(Start)
    /\ Emits(From("END_OF_FILE", ""), Start)

Carets == {tokens[i].col : i \in {j \in DOMAIN tokens : tokens[j].type = "UNKNOWN"}}
End == Token("END_OF_FILE", "", line, col)

\* mutant: the end is marked once more behind trailing spaces
Deliver_again ==
    /\ ~lexed /\ ~valid_pos(at)
    /\ lexed' = TRUE
    /\ lex_err' = Carets
    /\ tokens' = IF Carets # {} THEN <<>> ELSE Append(tokens, End)
    /\ UNCHANGED <<content, at, line, col>>

\* the text is used up: close the tokens, give none if one is unknown
Deliver ==
    /\ ~lexed /\ ~valid_pos(at)
    /\ lexed' = TRUE
    /\ lex_err' = Carets
    /\ tokens' = CASE Carets # {} -> <<>>
                   [] Carets = {} /\ tokens # <<>>
                      /\ tokens[Len(tokens)].type = "END_OF_FILE" -> tokens
                   [] OTHER -> Append(tokens, End)
    /\ UNCHANGED <<content, at, line, col>>

LexInit == /\ content = "" /\ at = 1 /\ line = 1 /\ col = 1
           /\ tokens = <<>> /\ lexed = TRUE /\ lex_err = {}

\* tokenize(text): the lines of the text are counted in advance, once more
Tokenize(text) ==
    /\ content' = text
    /\ at' = 1 /\ col' = 1
    /\ line' = line + (IF text = "" THEN 0
                       ELSE 1 + Cardinality({k \in 1 .. Len(text) :
                                                SubSeq(text, k, k) = "\n"}))
    /\ tokens' = <<>> /\ lexed' = FALSE /\ lex_err' = {}

Scan == \/ ScanWord \/ ScanNumber \/ ScanSymbol \/ ScanString \/ ScanComment
        \/ ScanUnknown \/ ScanEnd \/ Deliver

\* one lexer and any texts, one after the other
LexNext == Scan \/ \E text \in STRING : Tokenize(text)
LexSpec == LexInit /\ [][LexNext]_lvars

-----------------------------------------------------------------------------
\* The parser reads tokens.size() - 1 as the end, looks one token ahead
\* without asking, and goes on behind the last token: tokenize returns
\* exactly one END_OF_FILE, in the last place, whatever the text.
OneEnd ==
    lexed /\ content # "" /\ lex_err = {} =>
        {i \in DOMAIN tokens : tokens[i].type = "END_OF_FILE"} = {Len(tokens)}
=============================================================================
