-------------------------------- MODULE Terms --------------------------------
(***************************************************************************)
(* The values the classes compute with, as symbolic terms: crypto.py is    *)
(* taken for free of collisions.  A value is the set of its XOR summands,  *)
(* a point of the curve the set of the scalars Q is multiplied by.         *)
(***************************************************************************)

\* A random or given value with a name and a number (gen_nonce, gen_salt,
\* gen_scalar draw a new one).
Atom(name, k) == {<<name, k>>}

\* No bytes yet: None, {} and b"".
Nothing == {}

\* sha256 and hash_to_int over the concatenation of several values.
H(chunks) == {<<"H", chunks>>}

\* xor_bytes, of values that fit has brought to 32 bytes.
Xor(a, b) == (a \cup b) \ (a \cap b)

\* scalar_mult: a . (b . Q) = b . (a . Q).
Point(a) == {<<"Q", {a}>>}
ScalarMult(a, point) == {<<"Q", {a} \cup p[2]>> : p \in point}
=============================================================================
