------------------------------ MODULE Catalog ------------------------------
(***************************************************************************)
(* The catalogue a request file is checked against: the types of JMAP's    *)
(* data model, the objects built from them, and the methods that take and  *)
(* answer with them (internal/spec). Every registration function of the    *)
(* standard methods is here, applied to the data types of which the checks *)
(* distinguish something; of each of those types the properties are here   *)
(* that some check treats differently from the others.                     *)
(***************************************************************************)
EXTENDS Naturals, Sequences, FiniteSets, SequencesExt, TLC

(***************************************************************************)
(* Types. "of" holds the element of an array, the key and the value of a   *)
(* map, and the members of a union; "null" says null is allowed besides.   *)
(***************************************************************************)
Type(kind, name, of) == [kind |-> kind, name |-> name, of |-> of, null |-> FALSE]
Prim(name)   == Type("prim", name, <<>>)
Obj(name)    == Type("object", name, <<>>)
Arr(elem)    == Type("array", "", <<elem>>)
Map(key, t)  == Type("map", "", <<key, t>>)
Union(of)    == Type("union", "", of)
AnyType      == Type("any", "Any", <<>>)
Id           == Prim("Id")
Str          == Prim("String")
Bool         == Prim("Boolean")
Integer      == Prim("Int")
UInt         == Prim("UnsignedInt")
UTC          == Prim("UTCDate")
Local        == Prim("LocalDateTime")
Nul(t)       == [t EXCEPT !.null = TRUE]
Bare(t)      == [t EXCEPT !.null = FALSE]

(* Whether two uses of a parameter agree on its type.                      *)
SameType(a, b) == Bare(a) = Bare(b)

UnionMentions(t, name) == \E i \in DOMAIN t.of : t.of[i].name = name

-----------------------------------------------------------------------------
(***************************************************************************)
(* Fields, and the records of the data types.                              *)
(***************************************************************************)
F(name, type) ==
  [name |-> name, type |-> type, required |-> FALSE, optional |-> FALSE, capability |-> "",
   enum |-> {}, creationIDs |-> FALSE, patchTarget |-> "", sortTarget |-> ""]

NamesOf(fields)       == {fields[i].name : i \in DOMAIN fields}
HasField(fields, nm)  == nm \in NamesOf(fields)
FieldOf(fields, nm)   == CHOOSE f \in Range(fields) : f.name = nm

Core      == "core"
Mail      == "mail"
Calendars == "calendars"
BlobCap   == "blob"
SMIME     == "smimeverify"
Vendor    == "vendor"

EmailFields ==
  <<F("id", Id), F("threadId", Id), F("mailboxIds", Map(Id, Bool)), F("keywords", Map(Str, Bool)),
    F("subject", Nul(Str)), F("references", Nul(Arr(Str))), F("headers", Arr(Obj("EmailHeader"))),
    F("textBody", Arr(Obj("EmailBodyPart"))),
    [F("smimeStatus", Nul(Str)) EXCEPT !.capability = SMIME]>>

MailboxFields ==
  <<F("id", Id), F("name", Str), F("parentId", Nul(Id)), F("role", Nul(Str)), F("sortOrder", UInt)>>
ThreadFields == <<F("id", Id), F("emailIds", Arr(Id))>>

MailObjects ==
  [Mailbox |-> MailboxFields, Thread |-> ThreadFields, Email |-> EmailFields,
   MailboxFilterCondition |-> <<F("parentId", Nul(Id)), F("role", Nul(Str))>>,
   EmailFilterCondition |->
     <<F("inMailbox", Id), F("inMailboxOtherThan", Arr(Id)), F("before", UTC), F("minSize", UInt),
       F("hasKeyword", Str), [F("hasSmime", Bool) EXCEPT !.capability = SMIME]>>]
MessageParts ==
  [EmailHeader   |-> <<F("name", Str), F("value", Str)>>,
   EmailBodyPart |-> <<F("partId", Nul(Str)), F("blobId", Nul(Id)), F("name", Nul(Str)),
                       F("subParts", Nul(Arr(Obj("EmailBodyPart"))))>>]

(* An event may be patched in one of its occurrences.                      *)
EventFields ==
  <<F("id", Id), F("title", Str), F("utcStart", UTC),
    [F("recurrenceOverrides", Nul(Map(Local, Obj("PatchObject")))) EXCEPT !.patchTarget = "CalendarEvent"],
    F("participants", Nul(Map(Id, Obj("EventParticipant"))))>>
ParticipantFields == <<F("name", Str), [F("roles", Map(Str, Bool)) EXCEPT !.enum = {"owner", "chair"}]>>

BlobDataFields == <<F("id", Id), F("data:asText", Nul(Str)), F("data:asBase64", Str), F("size", UInt)>>

CoreObjects ==
  [FilterOperator |->
     <<[F("operator", Str) EXCEPT !.required = TRUE, !.enum = {"AND", "OR", "NOT"}],
       [F("conditions", Arr(AnyType)) EXCEPT !.required = TRUE]>>,
   Comparator  |-> <<F("property", Str), F("isAscending", Bool), F("collation", Nul(Str))>>,
   AddedItem   |-> <<F("id", Id), F("index", UInt)>>,
   SetError    |-> <<F("type", Str), F("properties", Nul(Arr(Str)))>>,
   PatchObject |-> <<>>]

(* With the type of a vendor's own, that files are written against.        *)
Objects ==
  CoreObjects @@ MailObjects @@ MessageParts
  @@ [CalendarEvent |-> EventFields, EventParticipant |-> ParticipantFields, BlobData |-> BlobDataFields,
      Note |-> <<F("id", Id), F("text", Str)>>]

(* The properties a type may be sorted by, and what each needs besides.    *)
SortsBy(type) ==
  CASE type = "Email"   -> ("receivedAt" :> <<>>) @@ ("subject" :> <<>>)
                           @@ ("hasKeyword" :> <<F("keyword", Str)>>)
    [] type = "Mailbox" -> ("sortOrder" :> <<>>) @@ ("name" :> <<>>)
    [] OTHER            -> <<>>

(* Header fields asked for as properties: the field, and the type of the   *)
(* form. The last is in a form its field does not take.                    *)
HeaderProperties ==
  ("header:Subject" :> [field |-> "subject", type |-> Nul(Str)])
  @@ ("header:References:asMessageIds" :> [field |-> "references", type |-> Nul(Arr(Str))])
  @@ ("header:Content-Type" :> [field |-> "content-type", type |-> Nul(Str)])
BadHeaders == {"header:Subject:asDate"}
Digests    == {"digest:sha"}

AcceptsDynamic(type, nm) ==
  CASE type \in {"Email", "EmailBodyPart"} -> nm \in DOMAIN HeaderProperties \cup BadHeaders
    [] type = "BlobData"                   -> nm \in Digests \cup {"data"}
    [] OTHER                               -> FALSE

(* The field of a property beyond a type's fields; none, as <<>>, for the  *)
(* content of a blob, which comes back under names of its own.             *)
DynamicField(type, nm) ==
  IF ~AcceptsDynamic(type, nm) \/ nm \in BadHeaders \cup {"data"} THEN <<>>
  ELSE <<F(nm, IF nm \in Digests THEN Str ELSE HeaderProperties[nm].type)>>

(* A record is written with its fields and, of a message and its parts,    *)
(* with header fields; one of a part's content is not the message's.       *)
CheckWritable(type, nm) ==
  /\ type \in {"Email", "EmailBodyPart"}
  /\ nm \in DOMAIN HeaderProperties
  /\ ~(type = "Email" /\ HeaderProperties[nm].field = "content-type")

(* A property selected by name: a field, or one of the dynamic ones.       *)
CheckProperty(type, nm) ==
  HasField(Objects[type], nm) \/ (AcceptsDynamic(type, nm) /\ nm \notin BadHeaders)

AnsweredAs(type, nm) ==
  IF type = "BlobData" /\ nm = "data" THEN {"data:asText", "data:asBase64"} ELSE {nm}

-----------------------------------------------------------------------------
(***************************************************************************)
(* The standard methods of a data type.                                    *)
(***************************************************************************)
All == {"*"}                        \* every property, where a list would be

Method(name, capability, data, args, response) ==
  [name |-> name, capability |-> capability, data |-> data, args |-> args, response |-> response,
   properties |-> "", result |-> "", nested |-> "", nestedType |-> "", defaults |-> All, nestedDefaults |-> All,
   onlyWhenAsked |-> {}, nulls |-> {}, nullables |-> {}, returnsID |-> FALSE, readsOnly |-> TRUE]

AccountID == F("accountId", Id)

RegisterGet(name, type, capability) ==
  [Method(name, capability, type,
          <<AccountID, F("ids", Nul(Arr(Id))), F("properties", Nul(Arr(Str)))>>,
          <<AccountID, F("state", Str), F("list", Arr(Obj(type))), F("notFound", Arr(Id))>>)
   EXCEPT !.properties = "properties", !.result = "list", !.returnsID = TRUE]

RegisterChanges(name, type, capability) ==
  Method(name, capability, type,
         <<AccountID, F("sinceState", Str), F("maxChanges", Nul(UInt))>>,
         <<AccountID, F("oldState", Str), F("newState", Str), F("hasMoreChanges", Bool),
           F("created", Arr(Id)), F("updated", Arr(Id)), F("destroyed", Arr(Id))>>)

Failures == Nul(Map(Id, Obj("SetError")))

RegisterSet(name, type, capability) ==
  [Method(name, capability, type,
          <<AccountID, F("ifInState", Nul(Str)),
            [F("create", Nul(Map(Id, Obj(type)))) EXCEPT !.creationIDs = TRUE],
            [F("update", Nul(Map(Id, Obj("PatchObject")))) EXCEPT !.patchTarget = type],
            F("destroy", Nul(Arr(Id)))>>,
          <<AccountID, F("oldState", Nul(Str)), F("newState", Str),
            F("created", Nul(Map(Id, Nul(Obj(type))))), F("updated", Nul(Map(Id, Nul(Obj(type))))),
            F("destroyed", Nul(Arr(Id))), F("notCreated", Failures)>>)
   EXCEPT !.readsOnly = FALSE]

FilterConditionOf(type) == type \o "FilterCondition"
Filter(type)  == Nul(Union(<<Obj("FilterOperator"), Obj(FilterConditionOf(type))>>))
RegisterCopy(name, type, capability) ==
  [Method(name, capability, type,
          <<F("fromAccountId", Id), F("ifFromInState", Nul(Str)), AccountID, F("ifInState", Nul(Str)),
            [F("create", Map(Id, Obj(type))) EXCEPT !.creationIDs = TRUE],
            F("onSuccessDestroyOriginal", Bool), F("destroyFromIfInState", Nul(Str))>>,
          <<F("fromAccountId", Id), AccountID, F("oldState", Nul(Str)), F("newState", Str),
            F("created", Nul(Map(Id, Obj(type)))), F("notCreated", Failures)>>)
   EXCEPT !.readsOnly = FALSE]

SortArg(type) == [F("sort", Nul(Arr(Obj("Comparator")))) EXCEPT !.sortTarget = type]
Sometimes(f)  == [f EXCEPT !.optional = TRUE]

RegisterQuery(name, type, capability) ==
  Method(name, capability, type,
         <<AccountID, F("filter", Filter(type)), SortArg(type), F("position", Integer),
           F("anchor", Nul(Id)), F("limit", Nul(UInt)), F("calculateTotal", Bool)>>,
         <<AccountID, F("queryState", Str), F("canCalculateChanges", Bool), F("position", UInt),
           F("ids", Arr(Id)), Sometimes(F("total", UInt)), Sometimes(F("limit", UInt))>>)

RegisterQueryChanges(name, type, capability) ==
  Method(name, capability, type,
         <<AccountID, F("filter", Filter(type)), SortArg(type), F("sinceQueryState", Str),
           F("upToId", Nul(Id))>>,
         <<AccountID, F("oldQueryState", Str), F("newQueryState", Str), Sometimes(F("total", UInt)),
           F("removed", Arr(Id)), F("added", Arr(Obj("AddedItem")))>>)

BodyProperties   == F("bodyProperties", Nul(Arr(Str)))
PartDefaults     == {"partId", "blobId", "name"}
EmailDefaults    == {"id", "threadId", "mailboxIds", "keywords", "subject", "references", "textBody"}
WithBodyParts(m) ==
  [m EXCEPT !.args = Append(@, BodyProperties), !.nested = "bodyProperties",
            !.nestedType = "EmailBodyPart", !.nestedDefaults = PartDefaults]

EmailGet ==
  [WithBodyParts(RegisterGet("Email/get", "Email", Mail)) EXCEPT !.defaults = EmailDefaults]

EmailParse ==
  [WithBodyParts(Method("Email/parse", Mail, "Email",
      <<AccountID, F("blobIds", Arr(Id)), F("properties", Nul(Arr(Str)))>>,
      <<AccountID, F("parsed", Nul(Map(Id, Obj("Email")))), F("notParsable", Nul(Arr(Id))),
        F("notFound", Nul(Arr(Id)))>>))
   EXCEPT !.properties = "properties", !.result = "parsed", !.nulls = {"id", "mailboxIds", "keywords"},
          !.nullables = {"threadId"}, !.defaults = {"references", "subject", "textBody"}]

BlobGet ==
  [Method("Blob/get", BlobCap, "BlobData",
      <<AccountID, F("ids", Arr(Id)), F("properties", Nul(Arr(Str)))>>,
      <<AccountID, F("list", Arr(Obj("BlobData"))), F("notFound", Arr(Id))>>)
   EXCEPT !.properties = "properties", !.result = "list", !.returnsID = TRUE,
          !.defaults = {"data", "size"}]

Methods ==
  {RegisterGet("Mailbox/get", "Mailbox", Mail), RegisterChanges("Mailbox/changes", "Mailbox", Mail),
   RegisterQuery("Mailbox/query", "Mailbox", Mail), RegisterGet("Thread/get", "Thread", Mail),
   EmailGet, EmailParse, RegisterSet("Email/set", "Email", Mail),
   RegisterQuery("Email/query", "Email", Mail), RegisterChanges("Email/changes", "Email", Mail),
   RegisterQueryChanges("Email/queryChanges", "Email", Mail),
   [RegisterGet("CalendarEvent/get", "CalendarEvent", Calendars) EXCEPT !.onlyWhenAsked = {"utcStart"}],
   RegisterSet("CalendarEvent/set", "CalendarEvent", Calendars), BlobGet,
   [RegisterGet("Note/get", "Note", Vendor) EXCEPT !.readsOnly = FALSE],
   Method("Core/echo", Core, "", <<>>, <<>>)}

MethodNames      == {m.name : m \in Methods}
MethodNamed(nm)  == CHOOSE m \in Methods : m.name = nm

(* The records of a call are its type's, with what it may return as null   *)
(* made nullable.                                                          *)
RecordObject(m) ==
  LET Nullable(fields) ==
        [i \in DOMAIN fields |-> IF fields[i].name \in m.nullables THEN [fields[i] EXCEPT !.type = Nul(@)]
                                 ELSE fields[i]]
  IN Nullable(Objects[m.data])
=============================================================================
