------------------------------- MODULE Caesar -------------------------------
(***************************************************************************)
(* ceaser.c: a shift of the letters by a key.  A letter is its case and    *)
(* its position in the alphabet; every other character stands for itself.  *)
(* A key is a C int.                                                       *)
(***************************************************************************)
EXTENDS Integers, Sequences

CONSTANT Others                (* the characters that are no letters       *)

ALPHABET_SIZE == 26

Positions == 0 .. ALPHABET_SIZE - 1
Upper == {"upper"} \X Positions
Lower == {"lower"} \X Positions
Characters == Upper \cup Lower \cup ({"other"} \X Others)

isalpha(c) == c[1] # "other"
toupper(c) == IF c[1] = "lower" THEN <<"upper", c[2]>> ELSE c

\* C's key % ALPHABET_SIZE has the sign of key.
Remainder(key) ==
  IF key >= 0 THEN key % ALPHABET_SIZE ELSE -((-key) % ALPHABET_SIZE)

encode_letter(position, key) ==
  LET shifted == position + Remainder(key) IN
  IF Remainder(key) > 0
  THEN IF shifted >= ALPHABET_SIZE THEN shifted - ALPHABET_SIZE ELSE shifted
  ELSE IF shifted < 0 THEN shifted + ALPHABET_SIZE ELSE shifted

EncodedCharacter(c, key) ==
  IF isalpha(c) THEN <<"upper", encode_letter(c[2], key)>> ELSE toupper(c)

\* The characters of the block encode returns.
encode(plaintext, key) ==
  [idx \in DOMAIN plaintext |-> EncodedCharacter(plaintext[idx], key)]

\* The block has no room for a terminator.  Who takes it for a string goes on into
\* the memory behind it, up to a terminator there.
AsString(block, behind) == block \o behind

\* -1 * key, of which the least int has none: there the product is the key again.
INT_MAX == 2147483647
INT_MIN == -INT_MAX - 1
Negated(key) == IF key = INT_MIN THEN INT_MIN ELSE -key

decode(cypher_text, key) == encode(cypher_text, Negated(key))
=============================================================================
