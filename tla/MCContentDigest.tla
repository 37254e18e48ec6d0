--------------------------- MODULE MCContentDigest ---------------------------
(***************************************************************************)
(* A small instance of ContentDigest for TLC.                               *)
(***************************************************************************)
EXTENDS ContentDigest

MCFrames == {<<"a">>, <<"b">>, <<"a", "b">>}

Digest(alg, of, bytes) == Member("entry", alg, DeriveDigest(of, bytes))
SecondOnLine(member) == [member EXCEPT !.first = FALSE]

Good == Digest("sha-256", "sha-256", <<"a", "b">>)
Long == Digest("sha-512", "sha-512", <<"a", "b">>)
Stale == Digest("sha-256", "sha-256", <<"b">>)

MCDigestFields ==
  {<<>>, <<Good>>, <<Long>>,
   <<Digest("sha-256", "sha-512", <<"a", "b">>)>>,   \* of the other length
   <<Digest("md5", "sha-256", <<"a", "b">>)>>,       \* unknown type
   <<Member("entry", "sha-256", <<"token", "t">>)>>, \* no byte sequence
   <<Member("text", "", <<"token", "t">>)>>,
   <<Member("opaque", "", <<"token", "t">>)>>,
   <<Stale, Good>>,                                  \* two lines
   <<Good, SecondOnLine(Long)>>,                     \* two types on one line
   <<Stale, SecondOnLine(Good)>>}                    \* one type twice on one line
==============================================================================
