----------------------------- MODULE MCApiClient -----------------------------
(***************************************************************************)
(* Calls with up to two setters on every method, and groups of one to four *)
(* items where two or three are accepted: too few, the least, the most and *)
(* too many. A file is one that is uploaded by its path, or one that       *)
(* Telegram fetches.                                                       *)
(***************************************************************************)
EXTENDS ApiClient

\* Chats whose administrators have every right, and chats of both kinds.
EveryRight == {"all"}
BothKinds  == {"channel", "supergroup"}

OneUploaded == {"path", "url"}
=============================================================================
