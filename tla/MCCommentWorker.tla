--------------------------- MODULE MCCommentWorker ---------------------------
(* Two campaigns with public replies, and the jobs of the webhook and of a *)
(* polling sweep for the same comment.                                     *)
EXTENDS CommentWorker

CONSTANTS webhook, poll

OnlyWebhook == {webhook}

WebhookAndPoll == {webhook, poll}

BothReply == {1, 2}
=============================================================================
