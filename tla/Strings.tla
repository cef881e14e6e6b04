------------------------------ MODULE Strings -------------------------------
(***************************************************************************)
(* kernel/lib/string.c, of which user/string.c is a copy: the functions    *)
(* work on a memory of MemSize bytes, whose values are in Byte, 0 being    *)
(* the end of a string.  A call starts where its arguments fit.            *)
(***************************************************************************)
EXTENDS Integers, Sequences, FiniteSets

CONSTANTS MemSize, Byte

VARIABLES bytes,   \* the memory
          done     \* the last call: [f, d, s, n, before]

stringVars == <<bytes, done>>

Addr == 0..(MemSize - 1)
NoCall == [f |-> "none", d |-> 0, s |-> 0, n |-> 0, before |-> bytes]

-----------------------------------------------------------------------------
(* The loops, over a memory M. *)

(* d[i] = s[i] for i below n, upwards *)
CopyUp(M, d, s, n) ==
  LET loop[i \in 0..n] == IF i = 0 THEN M
                          ELSE [loop[i - 1] EXCEPT ![d + i - 1] = loop[i - 1][s + i - 1]]
  IN loop[n]

(* the same, downwards *)
CopyDown(M, d, s, n) ==
  LET loop[i \in 0..n] == IF i = n THEN M
                          ELSE [loop[i + 1] EXCEPT ![d + i] = loop[i + 1][s + i]]
  IN loop[0]

memset(M, d, ch, n) ==
  LET loop[i \in 0..n] == IF i = 0 THEN M ELSE [loop[i - 1] EXCEPT ![d + i - 1] = ch]
  IN loop[n]

memcpy(M, d, s, n) == CopyUp(M, d, s, n)

(* Mutant of memmove: always upwards. *)
memmove_up(M, d, s, n) == CopyUp(M, d, s, n)

memmove(M, d, s, n) ==
  IF d < s THEN CopyUp(M, d, s, n)
  ELSE IF d > s THEN CopyDown(M, d, s, n)
  ELSE M

strnlen(M, s, n) ==
  LET len[i \in 0..n] == IF i = n \/ M[s + i] = 0 THEN i ELSE len[i + 1]
  IN len[0]

strlen(M, s) == strnlen(M, s, MemSize - s)

(* with the terminating 0 *)
strcpy(M, d, s) == CopyUp(M, d, s, strlen(M, s) + 1)

(* The copy stops at the end of the string, the rest is filled with 0. *)
strncpy(M, d, s, n) ==
  LET len == strnlen(M, s, n)
  IN memset(CopyUp(M, d, s, len), d + len, 0, n - len)

strlcpy(M, d, s, n) ==
  IF n = 0 THEN M
  ELSE LET len == strnlen(M, s, n - 1)
       IN [CopyUp(M, d, s, len) EXCEPT ![d + len] = 0]

Sign(x) == IF x < 0 THEN 0 - 1 ELSE IF x > 0 THEN 1 ELSE 0

memcmp(M, a, b, n) ==
  LET cmp[i \in 0..n] == IF i = n THEN 0
                         ELSE IF M[a + i] # M[b + i] THEN Sign(M[a + i] - M[b + i])
                         ELSE cmp[i + 1]
  IN cmp[0]

strncmp(M, a, b, n) ==
  LET cmp[i \in 0..n] == IF i = n THEN 0
                         ELSE IF M[a + i] # M[b + i] THEN Sign(M[a + i] - M[b + i])
                         ELSE IF M[a + i] = 0 THEN 0
                         ELSE cmp[i + 1]
  IN cmp[0]

strcmp(M, a, b) ==
  LET cmp[i \in 0..MemSize] == IF M[a + i] # 0 /\ M[a + i] = M[b + i] THEN cmp[i + 1]
                               ELSE Sign(M[a + i] - M[b + i])
  IN cmp[0]

(* the offset of the last c, the terminator included; -1 for none *)
strrchr(M, s, c) ==
  LET len == strlen(M, s)
      last[i \in 0..(len + 1)] == IF i = 0 THEN 0 - 1
                                  ELSE IF M[s + i - 1] = c THEN i - 1
                                  ELSE last[i - 1]
  IN last[len + 1]

-----------------------------------------------------------------------------
IsString(M, s) == \E i \in s..(MemSize - 1) : M[i] = 0

Fits(d, s, n) == d + n <= MemSize /\ s + n <= MemSize
Apart(d, s, n) == d + n <= s \/ s + n <= d

(* what a call leaves in memory, and whether it may be made *)
Effect(f, d, s, n) ==
  CASE f = "memset"  -> memset(bytes, d, 0, n)
    [] f = "memcpy"  -> memcpy(bytes, d, s, n)
    [] f = "memmove" -> memmove(bytes, d, s, n)
    [] f = "strcpy"  -> strcpy(bytes, d, s)
    [] f = "strncpy" -> strncpy(bytes, d, s, n)
    [] f = "strlcpy" -> strlcpy(bytes, d, s, n)

Callable(f, d, s, n) ==
  CASE f = "memset"  -> d + n <= MemSize
    [] f = "memcpy"  -> Fits(d, s, n) /\ Apart(d, s, n)
    [] f = "memmove" -> Fits(d, s, n)
    [] f = "strcpy"  -> /\ IsString(bytes, s)
                        /\ n = strlen(bytes, s) + 1 /\ Fits(d, s, n) /\ Apart(d, s, n)
    [] f \in {"strncpy", "strlcpy"} ->
                        /\ IsString(bytes, s) /\ d + n <= MemSize
                        /\ Apart(d, s, IF n > strlen(bytes, s) THEN n ELSE strlen(bytes, s) + 1)

StringInit == bytes \in [Addr -> Byte] /\ done = NoCall

Call(f, d, s, n) ==
  /\ done.f = "none"
  /\ Callable(f, d, s, n)
  /\ bytes' = Effect(f, d, s, n)
  /\ done' = [f |-> f, d |-> d, s |-> s, n |-> n, before |-> bytes]

(* the caller goes on *)
Return == done.f # "none" /\ done' = NoCall /\ UNCHANGED bytes

StringNext ==
  \/ Return
  \/ \E f \in {"memset", "memcpy", "memmove", "strcpy", "strncpy", "strlcpy"},
        d \in Addr, s \in Addr, n \in 0..MemSize : Call(f, d, s, n)

-----------------------------------------------------------------------------
(* Properties. *)

Len0(M, s) == CHOOSE k \in 0..(MemSize - s) :
                /\ \A i \in 0..(k - 1) : M[s + i] # 0
                /\ k = MemSize - s \/ M[s + k] = 0

(* The copying functions leave, in the n bytes of the destination, the     *)
(* bytes the source had before the call, overlapping or not (memmove), cut *)
(* at the end of the string and filled or terminated with 0 (strncpy,      *)
(* strlcpy); no byte outside of the destination changes.                   *)
CopiesExact ==
  LET M == done.before   d == done.d   s == done.s   n == done.n   f == done.f
      len == Len0(M, s)
      cut == IF f = "strlcpy" /\ n <= len THEN n - 1 ELSE len
      Want(i) == CASE f = "memset" -> 0
                   [] f \in {"memcpy", "memmove", "strcpy"} -> M[s + i]
                   [] f = "strncpy" -> IF i < len THEN M[s + i] ELSE 0
                   [] f = "strlcpy" -> IF i < cut THEN M[s + i]
                                       ELSE IF i = cut THEN 0 ELSE M[d + i]
  IN f # "none" =>
       \A a \in Addr : bytes[a] = IF a \in d..(d + n - 1) THEN Want(a - d) ELSE M[a]

(* The order of the words of at most n bytes at a and b, both cut at their *)
(* first 0 when they are strings.                                          *)
Order(M, a, b, k) ==
  IF \A i \in 0..(k - 1) : M[a + i] = M[b + i] THEN 0
  ELSE LET i == CHOOSE i \in 0..(k - 1) : /\ M[a + i] # M[b + i]
                                          /\ \A j \in 0..(i - 1) : M[a + j] = M[b + j]
       IN IF M[a + i] < M[b + i] THEN 0 - 1 ELSE 1

(* The comparing functions order bytes and strings as unsigned words, and  *)
(* what is behind the end of a string does not matter; strrchr finds the   *)
(* last occurrence.                                                        *)
ComparesExact ==
  LET Upto(n, a) == IF n < Len0(bytes, a) + 1 THEN n ELSE Len0(bytes, a) + 1 IN
  done.f = "none" =>
    /\ \A a, b \in Addr, n \in 0..MemSize :
         Fits(a, b, n) =>
           /\ memcmp(bytes, a, b, n) = Order(bytes, a, b, n)
           /\ strncmp(bytes, a, b, n) = Order(bytes, a, b, Upto(n, a))
    /\ \A a, b \in Addr :
         IsString(bytes, a) /\ IsString(bytes, b) =>
           strcmp(bytes, a, b) = Order(bytes, a, b, Upto(MemSize, IF Len0(bytes, a) < Len0(bytes, b) THEN a ELSE b))
    /\ \A a \in Addr, c \in Byte :
         IsString(bytes, a) =>
           LET at == {i \in 0..Len0(bytes, a) : bytes[a + i] = c}
               r  == strrchr(bytes, a, c)
           IN IF at = {} THEN r = 0 - 1 ELSE r \in at /\ \A i \in at : i <= r
=============================================================================
