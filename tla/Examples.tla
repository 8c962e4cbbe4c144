------------------------------ MODULE Examples ------------------------------
(***************************************************************************)
(* The package of requests the repository generates and keeps, as its Go   *)
(* functions are: what each asks of the session, the calls it makes, the   *)
(* one whose answer it returns (0: all), and those whose refusals it       *)
(* collects; and the table its Verify is given (example/client).           *)
(***************************************************************************)
EXTENDS ClientTypes

LOCAL Generator == INSTANCE GoClient

Function(name, using, primaries, calls, returns, collects) ==
  [name |-> name, using |-> <<"core">> \o using, primaries |-> primaries, calls |-> calls,
   returns |-> returns, collects |-> collects, pages |-> ""]

(* A call, and the earlier calls whose results it refers to.               *)
Makes(method, cap)   == [method |-> method, cap |-> cap, refs |-> {}]
Reads(i, method, cap) == [method |-> method, cap |-> cap, refs |-> {i}]

(* A query and a get of what it finds, which is what the function returns. *)
Finds(name, using, cap) ==
  Function(name, using, <<cap>>, <<Makes("query", cap), Reads(1, "get", cap)>>, 2, {})

(* A single /set.                                                          *)
Sets(name, cap) == Function(name, <<cap>>, <<cap>>, <<Makes("set", cap)>>, 1, {1})

-----------------------------------------------------------------------------
Agenda             == Finds("Agenda", <<"calendars">>, "calendars")
FindPeople         == Finds("FindPeople", <<"principals">>, "principals")
ListInboxEmails    == Finds("ListInboxEmails", <<"mail">>, "mail")
MailQuota          == Finds("MailQuota", <<"quota">>, "quota")
RecentlyShared     == Finds("RecentlyShared", <<"principals">>, "principals")
VerifiedSignatures == Finds("VerifiedSignatures", <<"mail", "smimeverify">>, "mail")

CreateContact        == Sets("CreateContact", "contacts")
CreateEvent          == Sets("CreateEvent", "calendars")
CreateMailbox        == Sets("CreateMailbox", "mail")
MarkEmailRead        == Sets("MarkEmailRead", "mail")
RescheduleOccurrence == Sets("RescheduleOccurrence", "calendars")
UpdateContactEmail   == Sets("UpdateContactEmail", "contacts")

(* A push subscription is of no account.                                   *)
ConfirmPush  == Function("ConfirmPush", <<>>, <<>>, <<Makes("set", "core")>>, 1, {1})
RegisterPush == Function("RegisterPush", <<>>, <<>>, <<Makes("set", "core")>>, 1, {1})

ReadMessage         == Function("ReadMessage", <<"mail">>, <<"mail">>, <<Makes("get", "mail")>>, 1, {})
ReadAttachedMessage == Function("ReadAttachedMessage", <<"mail">>, <<"mail">>, <<Makes("parse", "mail")>>, 1, {})
SendReadReceipt     == Function("SendReadReceipt", <<"mdn">>, <<"mdn">>, <<Makes("send", "mdn")>>, 1, {1})
WhatUsesBlob        == Function("WhatUsesBlob", <<"blob">>, <<"blob">>,
                                <<Makes("lookup", "blob"), Makes("get", "blob")>>, 0, {})

(* What these send later names what they made earlier by its creation id,  *)
(* which the server resolves; one refers to it by the result.              *)
AttachNote         == Function("AttachNote", <<"blob", "mail">>, <<"blob", "mail">>,
                               <<Makes("upload", "blob"), Makes("set", "mail")>>, 0, {1, 2})
FileIntoNewMailbox == Function("FileIntoNewMailbox", <<"mail">>, <<"mail">>,
                               <<Makes("set", "mail"), Makes("set", "mail")>>, 0, {1, 2})
InstallSieveScript == Function("InstallSieveScript", <<"blob", "sieve">>, <<"blob", "sieve">>,
                               <<Makes("upload", "blob"), Makes("set", "sieve")>>, 2, {1, 2})
CheckSieveScript   == Function("CheckSieveScript", <<"blob", "sieve">>, <<"blob", "sieve">>,
                               <<Makes("upload", "blob"), Reads(1, "validate", "sieve")>>, 2, {1})
SendEmail          == Function("SendEmail", <<"mail", "submission">>, <<"mail", "submission">>,
                               <<Makes("set", "mail"), Makes("set", "submission")>>, 2, {1, 2})

SearchContacts == Function("SearchContacts", <<"contacts">>, <<"contacts">>,
                           <<Makes("get", "contacts"), Makes("query", "contacts"), Reads(2, "get", "contacts")>>,
                           0, {})
SyncEmails     == Function("SyncEmails", <<"mail">>, <<"mail">>,
                           <<Makes("changes", "mail"), Reads(1, "get", "mail"), Reads(1, "get", "mail")>>, 0, {})
SearchEmails   == Function("SearchEmails", <<"mail">>, <<"mail">>,
                           <<Makes("query", "mail"), Reads(1, "get", "mail")>>, 0, {})

(* Walks the windows of SearchEmails.                                      *)
SearchEmailsPages == [SearchEmails EXCEPT !.pages = "query"]

Package == {
  Agenda, AttachNote, CheckSieveScript, ConfirmPush, CreateContact, CreateEvent, CreateMailbox,
  FileIntoNewMailbox, FindPeople, InstallSieveScript, ListInboxEmails, MailQuota, MarkEmailRead,
  ReadAttachedMessage, ReadMessage, RecentlyShared, RegisterPush, RescheduleOccurrence, SearchContacts,
  SearchEmails, SearchEmailsPages, SendEmail, SendReadReceipt, SyncEmails, UpdateContactEmail,
  VerifiedSignatures, WhatUsesBlob }

-----------------------------------------------------------------------------
(* What Verify is told of each.                                            *)
Entry(using, primaries, calls) ==
  [using |-> {"core"} \cup using, primaries |-> primaries, calls |-> calls]
Own(cap, calls) == Entry({cap}, {cap}, calls)

RequestNeeds(name) ==
  CASE name = "Agenda"               -> Own("calendars", 2)
    [] name = "AttachNote"           -> Entry({"blob", "mail"}, {"blob", "mail"}, 2)
    [] name = "CheckSieveScript"     -> Entry({"blob", "sieve"}, {"blob", "sieve"}, 2)
    [] name = "ConfirmPush"          -> Entry({}, {}, 1)
    [] name = "CreateContact"        -> Own("contacts", 1)
    [] name = "CreateEvent"          -> Own("calendars", 1)
    [] name = "CreateMailbox"        -> Own("mail", 1)
    [] name = "FileIntoNewMailbox"   -> Own("mail", 2)
    [] name = "FindPeople"           -> Own("principals", 2)
    [] name = "InstallSieveScript"   -> Entry({"blob", "sieve"}, {"blob", "sieve"}, 2)
    [] name = "ListInboxEmails"      -> Own("mail", 2)
    [] name = "MailQuota"            -> Own("quota", 2)
    [] name = "MarkEmailRead"        -> Own("mail", 1)
    [] name = "ReadAttachedMessage"  -> Own("mail", 1)
    [] name = "ReadMessage"          -> Own("mail", 1)
    [] name = "RecentlyShared"       -> Own("principals", 2)
    [] name = "RegisterPush"         -> Entry({}, {}, 1)
    [] name = "RescheduleOccurrence" -> Own("calendars", 1)
    [] name = "SearchContacts"       -> Own("contacts", 3)
    [] name = "SearchEmails"         -> Own("mail", 2)
    [] name = "SendEmail"            -> Entry({"mail", "submission"}, {"mail", "submission"}, 2)
    [] name = "SendReadReceipt"      -> Own("mdn", 1)
    [] name = "SyncEmails"           -> Own("mail", 3)
    [] name = "UpdateContactEmail"   -> Own("contacts", 1)
    [] name = "VerifiedSignatures"   -> Entry({"mail", "smimeverify"}, {"mail"}, 2)
    [] name = "WhatUsesBlob"         -> Own("blob", 2)

(* The package is what the generator makes of its requests: Verify is told *)
(* what each function asks of the session, and a function collects the     *)
(* refusals of every call that can answer with some.                       *)
ASSUME PackageIsGenerated ==
  \A f \in Package : /\ RequestNeeds(f.name) = Generator!Needs(f)
                     /\ f.collects = {i \in DOMAIN f.calls : Lists(f, i)}
=============================================================================
