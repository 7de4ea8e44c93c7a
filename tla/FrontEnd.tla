------------------------------- MODULE FrontEnd -------------------------------
(***************************************************************************)
(* From text to tree: CompileModule of src/src/compiler.cpp up to the      *)
(* parser.  Lexer reads a text; if it reports no error, Parser reads the   *)
(* tokens.  There are three beginnings: a text; tokens, with the lexer     *)
(* done; and a tree, whose tokens are spelled out as a text.               *)
(***************************************************************************)
EXTENDS Lexer, Syntax

CONSTANTS
  Spelled      \* trees to spell out as texts

VARIABLE form  \* how the beginning is given

(* A text for each token, and blanks in between.                           *)
Spell(list) ==
  LET texts == [IntLit |-> "10", UIntLit |-> "1u", Float32Lit |-> "1.5e-1f", Float64Lit |-> "0.5",
                CharLit |-> "'a'", StringLit |-> "\"a b\""]
      spell(t) == Chars(IF t \in DOMAIN texts THEN texts[t] ELSE t)
  IN FlattenSeq([k \in DOMAIN list |-> Append(spell(list[k]), " ")])

FrontInit ==
  \/ form = "text" /\ LexInit /\ tree = Nil /\ toks = <<>> /\ parsed = Begin
  \/ form = "tokens" /\ SyntaxInit /\ LexBegin(<<>>)
  \/ form = "tree" /\ tree \in Spelled /\ toks = <<>> /\ parsed = Begin /\ LexBegin(<<>>)

SpellOut ==
  /\ form = "tree" /\ text = <<"NUL">>
  /\ text' = Append(Spell(Write(tree)), "NUL")
  /\ done' = FALSE /\ tokens' = <<>>
  /\ UNCHANGED <<cur, state, token_type, line, column, carriage_return, start, lex_errors, syntax>>

Lex == LexNext /\ UNCHANGED syntax

(* The name of an identifier, the type of any other token.                 *)
Token(t) ==
  LET names == {n \in Names : t.type = "Identifier" /\ Chars(n) = Slice(t.first, t.last)}
  IN IF names = {} THEN t.type ELSE CHOOSE n \in names : TRUE

Pass ==
  /\ done /\ toks = <<>> /\ lex_errors = <<>>
  /\ form = "text" \/ (form = "tree" /\ text # <<"NUL">>)
  /\ toks' = [k \in DOMAIN tokens |-> Token(tokens[k])]
  /\ UNCHANGED <<lex, parsed, tree>>

FrontNext ==
  /\ \/ Lex
     \/ SpellOut
     \/ Pass
     \/ form = "tokens" /\ WriteOut /\ UNCHANGED lex
     \/ Read /\ UNCHANGED lex
  /\ UNCHANGED form

front == <<lex, syntax, form>>

FrontSpec == FrontInit /\ [][FrontNext]_front

=============================================================================
