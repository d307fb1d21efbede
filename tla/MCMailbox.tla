----------------------------- MODULE MCMailbox ------------------------------
(* Mailbox under a lock that excludes.  Constants are in the .cfg file. *)
EXTENDS Mailbox

ExclusiveSpec == MailboxInit /\ [][MailboxNext /\ Exclusive']_mailboxVars
=============================================================================
