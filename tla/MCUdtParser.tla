----------------------------- MODULE MCUdtParser -----------------------------
(***************************************************************************)
(* Instances of UdtParser and UdtQueries for TLC: a plain lock and an      *)
(* RGB++ lock.                                                             *)
(***************************************************************************)
EXTENDS UdtQueries, TLC

CONSTANTS token, plain, rgbpp, btc, info1, info2

MCTokens == {token}
MCLocks == {plain, rgbpp}
MCBtcAddress == rgbpp :> btc
MCInfos == {info1, info2}
NoSsri == <<>>
MCSsriInfo == token :> info1

\* Which info a unique cell holds makes no difference.
Interchangeable == Permutations(MCInfos)

=============================================================================
