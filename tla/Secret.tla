------------------------------- MODULE Secret -------------------------------
(***************************************************************************)
(* Shared secrets and their files (internal/auth/secret.go).  A file that  *)
(* keygen wrote, or a copy of one, is a prefix of the standard base64 text *)
(* of a secret and a newline; both may have been cut off at any character. *)
(* What a file decodes to is a secret, the number of its bytes, and how    *)
(* the text was read: a prefix may happen to consist of hexadecimal digits *)
(* and then decodes to other bytes altogether.                             *)
(***************************************************************************)
EXTENDS Integers

CONSTANTS
    Secrets,          \* the secrets that keygen may draw
    MinSecretBytes,   \* the length of each
    HexPrefix         \* how many characters its text begins with that happen
                      \* to be hexadecimal digits

(* Base64 has four characters for three bytes, and pads with "=". *)
DataChars == (8 * MinSecretBytes + 5) \div 6
TextChars == 4 * ((MinSecretBytes + 2) \div 3)
FileChars == TextChars + 1

(* Two characters that are hexadecimal digits are a secret of one byte. *)
ASSUME SecretAssumption ==
    /\ MinSecretBytes \in Nat \ {0, 1}
    /\ HexPrefix \in [Secrets -> 0..DataChars]

(* usable: a regular file with permissions 0600 or stricter. *)
Files == [secret : Secrets, chars : 0..FileChars, usable : BOOLEAN]

NoFile == [secret |-> "none", chars |-> 0, usable |-> FALSE]

-----------------------------------------------------------------------------

NoSecret == [secret |-> "none", bytes |-> 0, code |-> "none"]

Decoded(f, n, code) == [secret |-> f.secret, bytes |-> n, code |-> code]

(* The secret that keygen drew, all of it. *)
Whole(s) == [secret |-> s, bytes |-> MinSecretBytes, code |-> "base64"]

(* Mutant of validateSecret: whatever decodes will do. *)
validateSecretAnyLength(d) == d

validateSecret(d) == IF d.bytes < MinSecretBytes THEN NoSecret ELSE d

(***************************************************************************)
(* Hexadecimal first, then base64 with its padding, then without.  A text  *)
(* cut off among its data characters has six bits for each of them; either *)
(* reader of base64 takes it unless one character is left over.            *)
(***************************************************************************)
DecodeSecret(f) ==
    LET n == IF f.chars > TextChars THEN TextChars ELSE f.chars  \* TrimSpace
    IN IF n = 0
         THEN NoSecret
       ELSE IF n % 2 = 0 /\ n <= HexPrefix[f.secret]
         THEN validateSecret(Decoded(f, n \div 2, "hex"))
       ELSE IF n = TextChars
         THEN validateSecret(Whole(f.secret))
       ELSE IF n <= DataChars /\ n % 4 # 1
         THEN validateSecret(Decoded(f, (6 * n) \div 8, "base64"))
       ELSE NoSecret

LoadSecretFile(f) ==
    IF f = NoFile \/ ~f.usable THEN NoSecret ELSE DecodeSecret(f)
=============================================================================
