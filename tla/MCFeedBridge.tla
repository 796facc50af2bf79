--------------------------- MODULE MCFeedBridge ---------------------------
(***************************************************************************)
(* The bridge over the legacy feed and the profile it moves to.            *)
(***************************************************************************)
EXTENDS FeedBridge

MCFeeds == <<Legacy, Moved>>
=============================================================================
