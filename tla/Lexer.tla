-------------------------------- MODULE Lexer --------------------------------
(***************************************************************************)
(* src/src/lexer.cpp: Lex feeds the characters of a file one at a time to  *)
(* the state machine lex_default, counts lines and columns, and appends a  *)
(* token whenever the machine says `emit'.                                 *)
(*                                                                         *)
(* A state of the machine is a string.  The states LS_STR_x and those of   *)
(* the operators are named by the characters read so far ("al", "<<"), the *)
(* others by the code's names without LS_.  The type of a keyword or an    *)
(* operator is its text; the other types have the code's names without     *)
(* TOK_.  Characters are strings of length one, and "NUL", "VT".           *)
(***************************************************************************)
EXTENDS Naturals, Sequences, SequencesExt

CONSTANT Texts       \* the contents of files, without the terminator Lex puts behind

VARIABLES
  text,              \* the contents with the terminator
  cur,               \* index of the next character, from 1
  state, token_type, done,         \* the FSM; its `emit' lives within a step
  line, column, carriage_return,   \* file_loc
  start,             \* where current_token starts: [at, line, column]
  tokens,            \* [type, first, last, line, column]
  lex_errors         \* where errors were reported: [first, last]

lex == <<text, cur, state, token_type, done, line, column, carriage_return, start, tokens,
         lex_errors>>

-----------------------------------------------------------------------------
(* Characters.                                                             *)

Chars(s) == [n \in 1 .. Len(s) |-> SubSeq(s, n, n)]

is_digit(c) == c \in {"0", "1", "2", "3", "4", "5", "6", "7", "8", "9"}

Letters == ToSet(Chars("abcdefghijklmnopqrstuvwxyzABCDEFGHIJKLMNOPQRSTUVWXYZ"))

is_alpha(c) == c \in Letters

is_ident(c) == is_alpha(c) \/ is_digit(c) \/ c = "_"

IsNewlineChar(c) == c \in {"\n", "\r", "\f", "VT"}

Blank(c) == IsNewlineChar(c) \/ c \in {" ", "\t"}

Keywords ==
  {"alignof", "bool", "break", "char", "continue", "else", "f32", "f64", "false", "for",
   "foreign", "if", "import", "null", "return", "s8", "s16", "s32", "s64", "sizeof", "string",
   "struct", "true", "typealias", "u8", "u16", "u32", "u64", "void", "while"}

(* The states LS_STR_x: the ways into a keyword.                           *)
Words == UNION {{SubSeq(w, 1, n) : n \in 1 .. Len(w)} : w \in Keywords}

Operators ==
  {"#", ":", "::", ":=", ";", ",", ".", "..", "?", "{", "}", "(", ")", "[", "]",
   "=", "==", "!", "!=", "<", "<=", ">", ">=", "+", "-", "*", "/", "%", "<<", ">>",
   "+=", "-=", "*=", "/=", "%=", "<<=", ">>=", "&", "&&", "|", "||", "^", "~", "@",
   "&=", "|=", "^=", "->"}

-----------------------------------------------------------------------------
(* lex_default: the state that a character leads to, or the type of the    *)
(* token that ends in front of it.                                         *)

To(q)   == [state |-> q, emit |-> FALSE]
Ends(t) == [emit |-> TRUE, type |-> t]

FromDefault(c) ==
  CASE Blank(c)         -> To("Junk")
    [] is_digit(c)      -> To("Int")
    [] c = "\""         -> To("StringLit")
    [] c = "'"          -> To("CharLit")
    [] c \in Words      -> To(c)
    [] is_alpha(c) /\ c \notin Words -> To("Ident")
    [] c \in Operators  -> To(c)
    [] OTHER            -> To("Invalid")

(* The states of numbers: what follows on a digit and on other characters, *)
(* and the type of the token that may end there.                           *)
OnDigit ==
  [Int |-> "Int", FloatP |-> "Float", Float |-> "Float", FloatE1 |-> "FloatE",
   FloatE_Sign |-> "FloatE", FloatE |-> "FloatE"]

OnOther ==
  {<<"Int", "u", "UInt">>, <<"Int", ".", "FloatP">>,
   <<"Float", "e", "FloatE1">>, <<"Float", "f", "FloatF">>, <<"Float", "d", "FloatD">>,
   <<"FloatE1", "+", "FloatE_Sign">>, <<"FloatE1", "-", "FloatE_Sign">>,
   <<"FloatE", "f", "FloatF">>, <<"FloatE", "d", "FloatD">>}

NumberType ==
  [Int |-> "IntLit", UInt |-> "UIntLit", Float |-> "Float64Lit", FloatE1 |-> "Float64Lit",
   FloatE |-> "Float64Lit", FloatF |-> "Float32Lit", FloatD |-> "Float64Lit"]

Numbers == DOMAIN OnDigit \cup DOMAIN NumberType

FromNumber(q, c) ==
  CASE q \in DOMAIN OnDigit /\ is_digit(c)   -> To(OnDigit[q])
    [] \E e \in OnOther : e[1] = q /\ e[2] = c ->
         To((CHOOSE e \in OnOther : e[1] = q /\ e[2] = c)[3])
    [] OTHER -> IF q \in DOMAIN NumberType THEN Ends(NumberType[q]) ELSE To("Invalid")

(* String and character literals, each with its quote.                     *)
Quoted(q, c, lit, quote) ==
  CASE q = lit               -> To(CASE c = "\\" -> lit \o "Esc" [] c = quote -> lit \o "End"
                                     [] OTHER -> lit)
    [] q = lit \o "Esc"      -> To(lit)
    [] q = lit \o "End"      -> Ends(lit)

FromLiteral(q, c) ==
  IF q \in {"StringLit", "StringLitEsc", "StringLitEnd"} THEN Quoted(q, c, "StringLit", "\"")
  ELSE Quoted(q, c, "CharLit", "'")

(* Faulty variant: a keyword ends where a longer word goes on.             *)
FromWordEager(q, c) ==
  CASE q # "Ident" /\ q \o c \in Words              -> To(q \o c)
    [] q \in Keywords                                -> Ends(q)
    [] q \notin Keywords /\ is_ident(c) /\ q \o c \notin Words -> To("Ident")
    [] OTHER                                         -> Ends("Identifier")

(* SINGLE_CASE, DOUBLE_CASE and KW_END_CASE: further into a keyword, else  *)
(* an identifier, else the end of the keyword or identifier.               *)
FromWord(q, c) ==
  CASE q # "Ident" /\ q \o c \in Words -> To(q \o c)
    [] is_ident(c) /\ (q = "Ident" \/ q \o c \notin Words) -> To("Ident")
    [] OTHER -> Ends(IF q \in Keywords THEN q ELSE "Identifier")

FromOperator(q, c) ==
  CASE q = "/" /\ c = "/"       -> To("Comment")
    [] q = "/" /\ c = "*"       -> To("MultilineComment")
    [] q \o c \in Operators     -> To(q \o c)
    [] OTHER                    -> Ends(q)

(* Faulty variant: any star ends a comment.                                *)
FromCommentAnyStar(q, c) ==
  CASE q = "Comment"          -> To(IF IsNewlineChar(c) THEN "Junk" ELSE q)
    [] q = "MultilineComment" -> To(IF c = "*" THEN "Junk" ELSE q)

FromComment(q, c) ==
  CASE q = "Comment"          -> To(IF IsNewlineChar(c) THEN "Junk" ELSE q)
    [] q = "MultilineComment" -> To(IF c = "*" THEN "MultilineCommentStar" ELSE q)
    [] q = "MultilineCommentStar" ->
         To(CASE c = "*" -> q [] c = "/" -> "Junk" [] OTHER -> "MultilineComment")

lex_default(q, c) ==
  CASE q = "Default"                   -> FromDefault(c)
    [] q \in Numbers                   -> FromNumber(q, c)
    [] q \in Words \cup {"Ident"}      -> FromWord(q, c)
    [] q \in Operators                 -> FromOperator(q, c)
    [] q \in {"Comment", "MultilineComment", "MultilineCommentStar"} -> FromComment(q, c)
    [] OTHER                           -> FromLiteral(q, c)

(* CheckEmitState: nothing is emitted in these states; all but a comment   *)
(* are errors.                                                             *)
Unfinished ==
  {"FloatP", "FloatE1", "FloatE_Sign", "StringLit", "StringLitEsc", "CharLit", "CharLitEsc",
   "MultilineComment", "MultilineCommentStar"}

CheckEmitState(q) == q \notin Unfinished \cup {"Comment"}

-----------------------------------------------------------------------------
(* Lex.                                                                    *)

(* text_length - 1: where the terminator is.                               *)
Terminator == Len(text)

Running == ~done

Here(at) == [at |-> at, line |-> line, column |-> column]

(* EmitToken and ResetToken, for a token that ends in front of `end'.      *)
EmitToken(q, type, end) ==
  /\ tokens' = IF CheckEmitState(q)
               THEN Append(tokens, [type |-> type, first |-> start.at, last |-> end - 1,
                                    line |-> start.line, column |-> start.column])
               ELSE tokens
  /\ token_type' = type
  /\ state' = "Default"
  /\ start' = Here(end)
  /\ cur' = end

(* A token ends in front of the next character.                            *)
Emit ==
  /\ Running /\ text[cur] # "NUL"
  /\ \E step \in {lex_default(state, text[cur])} :
       step.emit /\ EmitToken(state, step.type, cur)
  /\ lex_errors' = IF state \in Unfinished
                   THEN Append(lex_errors, [first |-> start.at, last |-> cur - 1])
                   ELSE lex_errors
  /\ UNCHANGED <<text, done, line, column, carriage_return>>

(* The first of two periods behind an integer: the integer ends in front   *)
(* of them, with whatever type the machine emitted last.                   *)
BeforeRange == state = "Int" /\ text[cur] = "." /\ text[cur + 1] = "."

EmitBeforeRange ==
  /\ Running /\ BeforeRange
  /\ EmitToken("Int", token_type, cur)
  /\ UNCHANGED <<text, done, line, column, carriage_return, lex_errors>>

(* Faulty variant: \r\n counts twice.                                      *)
CountBoth(c) ==
  /\ line' = IF IsNewlineChar(c) THEN line + 1 ELSE line
  /\ column' = IF IsNewlineChar(c) THEN 1 ELSE column + 1
  /\ carriage_return' = (c = "\r")

(* The line and column behind the character c.                             *)
Count(c) ==
  /\ line' = IF IsNewlineChar(c) /\ ~(c = "\n" /\ carriage_return) THEN line + 1 ELSE line
  /\ column' = IF IsNewlineChar(c) THEN 1 ELSE column + 1
  /\ carriage_return' = IF IsNewlineChar(c) THEN c = "\r" ELSE carriage_return

(* A character is taken.  White space and ends of comments are junk, to be *)
(* left out; what no token starts with or goes on with is an error.        *)
Consume ==
  /\ Running /\ text[cur] # "NUL" /\ ~BeforeRange
  /\ Count(text[cur])
  /\ \E step \in {lex_default(state, text[cur])} :
       /\ ~step.emit
       /\ state' = IF step.state \in {"Junk", "Invalid"} THEN "Default" ELSE step.state
       /\ start' = IF step.state \in {"Junk", "Invalid"}
                   THEN [at |-> cur + 1, line |-> line', column |-> column'] ELSE start
       /\ lex_errors' = IF step.state = "Invalid"
                        THEN Append(lex_errors, [first |-> start.at, last |-> cur])
                        ELSE lex_errors
  /\ cur' = cur + 1
  /\ UNCHANGED <<text, token_type, done, tokens>>

(* The end, reached at a zero.  In front of the terminator it is an error  *)
(* and the list gets no EOF token.                                         *)
EndAt(at, toks, errs) ==
  /\ done' = TRUE
  /\ cur' = at
  /\ tokens' = IF at < Terminator THEN toks
               ELSE Append(toks, [type |-> "EOF", first |-> at - 1, last |-> at - 1,
                                  line |-> line, column |-> column])
  /\ lex_errors' = IF at < Terminator THEN Append(errs, [first |-> at, last |-> at]) ELSE errs
  /\ UNCHANGED <<text, token_type, line, column, carriage_return>>

EndBetween ==
  /\ Running /\ text[cur] = "NUL" /\ state = "Default"
  /\ EndAt(cur + 1, tokens, lex_errors)
  /\ UNCHANGED <<state, start>>

(* Within a token: "Put \0 back" steps back although the zero was not      *)
(* taken, so the token loses its last character, and its type is the one   *)
(* the machine emitted last.                                               *)
EndWithin ==
  /\ Running /\ text[cur] = "NUL" /\ state # "Default"
  /\ LET q == IF state = "FloatP" /\ cur < Terminator /\ text[cur + 1] = "." THEN "Int" ELSE state
     IN EndAt(cur - 1,
              IF CheckEmitState(q)
              THEN Append(tokens, [type |-> token_type, first |-> start.at, last |-> cur - 2,
                                   line |-> start.line, column |-> start.column])
              ELSE tokens,
              IF q \in Unfinished
              THEN Append(lex_errors, [first |-> start.at, last |-> cur - 2]) ELSE lex_errors)
  /\ state' = "Default"
  /\ start' = Here(cur - 1)

LexBegin(contents) ==
  /\ text = Append(contents, "NUL")
  /\ cur = 1 /\ state = "Default" /\ token_type = "Comment"
  /\ done = (Len(text) = 1)
  /\ line = 1 /\ column = 1 /\ carriage_return = FALSE
  /\ start = [at |-> 1, line |-> 1, column |-> 1]
  /\ tokens = IF done THEN <<[type |-> "EOF", first |-> 1, last |-> 1, line |-> 1, column |-> 1]>>
              ELSE <<>>
  /\ lex_errors = <<>>

LexInit == \E t \in Texts : LexBegin(t)

LexNext == Emit \/ EmitBeforeRange \/ Consume \/ EndBetween \/ EndWithin

LexSpec == LexInit /\ [][LexNext]_lex

-----------------------------------------------------------------------------
(* What a token is, by its text alone.                                     *)

Digits(s) == s # <<>> /\ \A n \in DOMAIN s : is_digit(s[n])

From(s, n) == SubSeq(s, n, Len(s))

IsExponent(s) ==
  /\ Len(s) > 1 /\ s[1] = "e"
  /\ Digits(From(s, IF s[2] \in {"+", "-"} THEN 3 ELSE 2))

IsFloat(s) ==
  \E d \in DOMAIN s : \E e \in d + 2 .. Len(s) + 1 :
    /\ s[d] = "." /\ Digits(SubSeq(s, 1, d - 1)) /\ Digits(SubSeq(s, d + 1, e - 1))
    /\ e > Len(s) \/ IsExponent(From(s, e))

(* Quoted by q, with no q between but escaped ones.                        *)
IsQuoted(s, q) ==
  LET escaped[n \in Nat] == n > 1 /\ s[n - 1] = "\\" /\ ~escaped[n - 1]
  IN /\ Len(s) > 1 /\ s[1] = q
     /\ \A n \in 2 .. Len(s) : s[n] = q /\ ~escaped[n] <=> n = Len(s)

IsWord(s) == s # <<>> /\ is_alpha(s[1]) /\ \A n \in DOMAIN s : is_ident(s[n])

Lexeme(type, s) ==
  CASE type = "IntLit"     -> Digits(s)
    [] type = "UIntLit"    -> s # <<>> /\ Last(s) = "u" /\ Digits(Front(s))
    [] type = "Float64Lit" -> IsFloat(s) \/ (s # <<>> /\ Last(s) = "d" /\ IsFloat(Front(s)))
    [] type = "Float32Lit" -> s # <<>> /\ Last(s) = "f" /\ IsFloat(Front(s))
    [] type = "StringLit"  -> IsQuoted(s, "\"")
    [] type = "CharLit"    -> IsQuoted(s, "'")
    [] type = "Identifier" -> IsWord(s) /\ s \notin {Chars(w) : w \in Keywords}
    [] type = "Comment"    -> FALSE
    [] OTHER               -> s = Chars(type)

Types ==
  {"IntLit", "UIntLit", "Float64Lit", "Float32Lit", "StringLit", "CharLit", "Identifier"}
    \cup Keywords \cup Operators

Slice(first, last) == SubSeq(text, first, last)

StartsComment(n) == text[n] = "/" /\ text[n + 1] \in {"/", "*"}

(* A file ends with white space or a comment; the operand of a range is    *)
(* followed by a blank.                                                    *)
EndsBlank == \A n \in DOMAIN text : text[n] = "NUL" => n > 1 /\ Blank(text[n - 1])

RangeOperand(t) == Slice(t.last + 1, t.last + 2) = <<".", ".">>

LastToken == tokens[Len(tokens)]

HasToken == tokens # <<>> /\ LastToken.type # "EOF"

JustEmitted == HasToken /\ cur = LastToken.last + 1

(* Every token is as long as it can be, and of the type its text has: no   *)
(* keyword is cut out of a longer name, no operator split, no literal      *)
(* ended early, nothing else taken for one.                                *)
TokensAreLongest ==
  JustEmitted /\ EndsBlank /\ ~RangeOperand(LastToken) =>
    LET t == LastToken
    IN /\ Lexeme(t.type, Slice(t.first, t.last))
       /\ ~StartsComment(t.first)
       /\ \A n \in t.last + 1 .. Len(text) : \A type \in Types :
            ~Lexeme(type, Slice(t.first, n))

(* The comment that starts at n ends at m.                                 *)
EndsComment(n, m) ==
  IF text[n + 1] = "/" THEN IsNewlineChar(text[m])
  ELSE m > n + 2 /\ text[m - 1] = "*" /\ text[m] = "/"

IsComment(n, m) ==
  StartsComment(n) /\ EndsComment(n, m) /\ \A l \in n + 2 .. m - 1 : ~EndsComment(n, l)

(* The characters between two tokens are white space, comments and those   *)
(* an error was reported for: none is lost, none is read twice.            *)
NothingLost ==
  (JustEmitted \/ (tokens # <<>> /\ done)) /\ EndsBlank =>
    LET first == IF Len(tokens) = 1 THEN 1 ELSE tokens[Len(tokens) - 1].last + 1
        skips[n \in Nat] ==
          \/ n = LastToken.first
          \/ /\ n < LastToken.first
             /\ \/ Blank(text[n]) /\ skips[n + 1]
                \/ \E m \in n + 2 .. LastToken.first - 1 : IsComment(n, m) /\ skips[m + 1]
                \/ \E e \in ToSet(lex_errors) : e.first = n /\ skips[e.last + 1]
    IN skips[first]

(* A token is reported at the line and column where it is, whatever ends   *)
(* the lines; files in which a \r stands alone apart.                      *)
BreaksBefore(n) ==
  {m \in 1 .. n - 1 : IsNewlineChar(text[m]) /\ (m > 1 => Slice(m - 1, m) # <<"\r", "\n">>)}

PositionsExact ==
  JustEmitted /\ (\A m \in DOMAIN text : text[m] = "\r" => text[m + 1] = "\n") =>
    LET n == LastToken.first
        breaks == {m \in 1 .. n - 1 : IsNewlineChar(text[m])}
    IN /\ LastToken.line = 1 + Cardinality(BreaksBefore(n))
       /\ LastToken.column = n - Max(breaks \cup {0})

=============================================================================
