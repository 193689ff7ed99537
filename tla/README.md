# A verification project for wwwconf

wwwconf is a web forum written in C++ as a CGI program. There is no server
process of its own: for every HTTP request the web server starts a fresh
`index.cgi`, which reads and writes a directory of binary files, prints a page
and exits. A second binary, `dbtool` (`src/profman.cpp`), creates and repairs
the files off line. Everything that requests share is therefore in files, the
only synchronisation is `flock` on single files (`lock_file` and `unlock_file`,
`src/basetypes.h:232-233`), and an error anywhere ends in
`printhtmlerror()`, which prints a page and calls `exit(0)`: the kernel drops
the locks, and whatever had been written stays.

The TLA+ modules here model the parts of the program that keep this shared state, and
those that turn it into what a reader sees. TLC checks them on small instances; TLAPS
proves for every instance what matters most and is within its reach: that messages keep
their places, numbers and bodies under concurrent requests, the allocation of space inside
the data files, the name index, accounts and sessions, personal messages and favourites, the
index page and the page of one message, alternative names, announcements, the list of visits
and the activity log.

## 1. The system

| component | state | operations | interacts with |
|---|---|---|---|
| Free-space lists, `freedb.cpp` | a list file of `{size, index}` entries next to a data file | `MarkFreeSpace`, `AllocFreeSpace`; both create the file when it is missing | message headers and bodies, profile bodies |
| Message database, `dbase.cpp` | `index.msg` headers, `messages.msg` bodies, `vra_index.msg` numbers and thread count, `ra_index.msg` display order | post a thread, post a reply, edit, delete a thread, close, open, hide, unhide, roll, change the topic, read, read as XML | free lists, profiles (post counts, rights), the name of the session |
| Display index, `ra_index.msg` | runs `[begin, end]` of header addresses, a run may go down | put first, insert below a parent, cut out, walk a thread | message database |
| Profiles, `profiles.cpp` | `profindex.db` short records, `profindex.idx` name index, `profbody.db` full records, personal messages, favourites | add, delete, modify, `GetUInfo`/`SetUInfo`, post and read personal messages | name index, free list, sessions, message database |
| Name index, `hashindex.cpp` | hash chains from a name to a record | add, delete, look up | profiles |
| Sessions, `logins.cpp` | `authuser.dat`, a flat file of session records | open, check and renew, close one, close all of a user | profiles, dispatcher |
| Guards, `security.cpp` | `antispam.dat`: list of posters' addresses and list of recent readers | check an address, check and note a read | dispatcher, message database (is this read counted?) |
| Announcements, `announces.cpp` | `globalann.msg`: a last number and records | post, read, update, delete | dispatcher |
| Activity log, `activitylog.cpp` | two files that change roles by time, an archive | register a hit | dispatcher |
| Alternative nicknames, `colornick.cpp` | a flat file of spellings, a cache of it per request | read, add, delete | handlers of profiles and rights, printing |
| Index page, `dbase.cpp` | none on disk; flags kept from message to message | print the index in three views | display index, message database |
| Page of a message, `dbase.cpp` | the same | list the thread of the message | display index, message database |
| Dispatcher, `main.cpp` | none of its own | one handler per request | everything |
| Board tags, `boardtags.cpp` | a stack of open tags per text | prepare a text to be stored, expand its tags for a page, cut them | posting, editing, printing |
| Text filters, `speller.cpp` | none | replace the characters of HTML and put them back, direction markers, bad words | posting, editing, printing |
| `dbtool`, `profman.cpp` | none of its own | create databases anew, list, repair | all files, off line |
| Mail, log, errors, statistics | none | output | dispatcher |

What is hard here is that no operation is one step. Posting takes three locks one
after the other, and between them other requests run; deleting, closing and
editing look a message up without a lock and act on what they saw; a process may
be killed, or exit on an error, after any write. The correctness of each
component is, in words:

* free lists: a byte is in use by at most one record, is free at most once, and
  never both;
* display index: whatever way it is cut into runs, it says the same as the plain
  sequence of messages: a thread's messages stand together, each reply below its
  parent;
* message database: a number always names the message it was given to, no two
  messages share a place or a byte of body, the thread count is right, nothing
  leaks, and flags change when somebody asks for it only;
* profiles: a name has at most one record, a record one body, and counters are
  not lost;
* sessions: a request is accepted exactly while its session is open, on the
  account it was opened for;
* guards: a reader of a message is counted once while it is remembered;
* announcements: a number names one announcement, and no other one disappears while
  one is deleted;
* name index: whatever its chains look like, it is a map from names to places, also
  for those who read it without a lock;
* alternative names: a user has one spelling in the file, the one the user's record
  says, if whoever gave it had the right to;
* pages: a reader is shown what he may see and has asked for, as many threads as asked
  for, in lists that nest, with numbers that are right; below a message its own thread
  only;
* texts: stored as typed, offered for editing as typed, shown with every tag closed;
* records: the chains of personal messages are as long as the record says and hold
  that user's messages; favourites stay sorted and none is lost;
* activity log: the numbers shown, and those archived, are the hits of the period
  they are shown for.

The list of places where this can go wrong is `hazards` in `PROJECT.json`.

## 2. The modules

| module | models | state and actions |
|---|---|---|
| `FreeList` | the two list operations of `freedb.cpp` as predicates on a list before and after | no state; `TakeFrom`, `NoFit`, `MarkFreeSpace` |
| `BlockStore` | what the users of a data file rely on: a block handed out overlaps none in use | abstract: `live`; allocate, shrink or release |
| `DataFile` | one data file with its list | `end`, `live`, `free`, creation of the list file; `AllocFree`, `AllocEnd`, `FreeFrom`, `MissList`, `CreateList`, `AllocWhileCreated` |
| `DataFileIO` | `DataFile` when I/O on the list fails in the middle | adds `AllocFails` |
| `DbTool` | `DataFile` when `dbtool` creates the file anew | adds `RenewMessages`, `RenewProfiles` |
| `ThreadWalk` | the plain display order: put first, reply after, without, walk, parent of | no state |
| `ThreadOrder` | abstract display index: a sequence of messages and their levels | `PostThread`, `PostReply`, `DeleteMessages` |
| `MsgIndex` | `ra_index.msg` as the code keeps it, as runs with inclusive byte ends | the same operations, by splitting and joining runs |
| `MsgStore` | the message database under concurrent requests, from any database that is `Settled` | all files, two file locks, a program counter and local memory per request |
| `IndexPage` | `printhtmlbuffer`: the index page in the views `threads`, `rolled`, `xml`, one message a step | `invflag`, `collapsed`, the message held back, `skipped`, the threads counted, the level and the lists open |
| `ThreadPage` | `printThreadbuffer`: the thread below a message | `invflag`, `LastLevel`, roots shown, lists open |
| `BoardTags` | `FilterBoardTags`: one pass over a text with a stack of open tags | a text that grows; the pass is a fold over it |
| `TextFilters` | `FilterHTMLTags`, `DefilterHTMLTags`, `FilterBiDi` | the same |
| `Sessions` | the four functions on `authuser.dat`, called by anybody | `auth`, `issued`, `now`; open, check and renew, close one, close all of a user, the clock |
| `Accounts` | accounts and the sessions opened for them, under concurrent requests | the profile files and `Sessions`' state, a program counter and local memory per request |
| `AltNames` | alternative spellings in users' records and in `colornick`'s file, under concurrent requests | `nameUsers`, `names`, each request's cache and the right of whoever asks; logging in, the four handlers, then `AddAltName`, `DeleteAltName` |
| `NameMap` | abstract name index: a map from names to places, which changes at one name at a time | `place`; bind, unbind |
| `NameIndex` | `profindex.idx` as the code keeps it, in chains of blocks; a chain is the set of blocks reached from a head, the least one that no link leaves | `blocks`, the lock; add to a block, add and link a block, delete; look up and list one block at a time |
| `UserRecords` | a user's short record as the handlers of messages and favourites write it back; `profpers.db`, its lists by number and by date, and `dbtool -np` | `users`, `file`, the lock, a program counter and the records read per request |
| `Requests` | the processes of `PostGuard`, `Announces`, `ActivityLog`, `UserRecords` and `AltNames`, and the users of the last two | no state |
| `PostGuard` | `antispam.dat` | the list of visits, its creation, the clock |
| `Announces` | `globalann.msg` and the two pages that change it | next number, announcements, the lock; post, update, delete or replace in two steps |
| `ActivityLog` | the two log files and the archive | `files`, `archive`, the clock; a hit, and a hit that starts a period |
| `*_proofs` | theorems about the module of that name; `Files_proofs` about `DataFile`, `PostGuard`, `Announces`, `ActivityLog` and `AltNames`, `Pages_proofs` about `IndexPage`, `ThreadPage` and `MsgIndex`, `MsgStore_proofs` and `MsgOrder_proofs` both about `MsgStore` | section 4 |
| `ListLemmas` | what these need of lists, and of trees kept as a list with levels | no state |
| `MC*` | instances for TLC | `MCFiles` and `MCPages` put modules together that share nothing: a behaviour is of one of them, the one `which` says |

How they fit together:

* `DataFile` implements `BlockStore` (checked and proved); `MsgIndex` implements
  `ThreadOrder` (checked and proved).
* `MsgStore` uses `FreeList` for its two lists and `ThreadWalk` for the display
  order, which is sound because `MsgIndex` shows that the runs behave like the
  plain order.
* `NameIndex` implements `NameMap` (checked and proved); `Accounts` uses such a map.
* `IndexPage` and `ThreadPage` read any index that `ThreadOrder` allows: a root, then
  messages at most one level below the one before.
* `AltNames` takes users' records, as `UserRecords` does.
* `UserRecords` takes the records that `Accounts` registers as given and looks at
  what other handlers keep in them.
* `Accounts` extends `Sessions`: its handlers call the four functions at the times
  and with the arguments `main.cpp` and `CUserLogin` do.

In `MsgStore`, `Accounts` and `AltNames` an action is one critical section, or one access
outside any lock, of the code; a request that ends early by `printhtmlerror()`
goes through the operators `Exit` and `End`.

### Abstractions of `MsgStore`, `MsgIndex` and `DataFile`

* `MsgStore` counts places and bodies from 1 and gives a body one unit or none.
  That the arithmetic on bytes is right is the subject of `DataFile`, `MsgIndex`.
* `SelectMessageThreadtoBuf` reads `index.msg` and `ra_index.msg` block by block
  without a lock; it is one look at both here (`SelectThread`). A torn look
  adds behaviours, so the properties of the runs with deletions hold for a thread
  that is selected consistently.
* Users are present as `su`, a superuser or not; other rights, ignore lists,
  spelling and mail do not touch the shared files of this database. A change of topic
  writes a header back whole; the topic itself is left out.
* `DataFile` lets a space stay in use for ever when a process ends between two
  writes: that is a stutter.
* Data in `hdr` after its place was freed stays there, as in the file: a request
  that still holds the address reads it.

### Abstractions of `Sessions` and `Accounts`

* A session number stands for two random 32-bit words; none is drawn twice. It is
  kept by the client, and a request may present any number ever given.
* The address check is the parameter `same`: the request comes from the address
  of the session, or the configuration does not ask.
* A second's clock: the time used inside a lock is `now`; the time that opening and
  closing read before they wait for it is any since the request's last step.
* The name index is a function from names to places. A full record takes one
  place, and any free place may be handed out; `DataFile` models both lists to
  the byte. Of a full record only the creation date is kept, which is what the
  check of a session uses.
* `AddNewUser`, `DeleteUser` and `ModifyUser` hold the locks of `profindex.db` and
  `profbody.db` over all that they do after the first look-up: one step each.
  Reading a short record and then its full one is one step; it takes no lock.
* A superuser acts without a session of his own, so that his session need not be
  in `auth`; passwords are right.

### Abstractions of the pages and of texts

* `IndexPage`: the messages come as the index has them, chosen one by one, so all
  short boards are read. Topic and date are looked at in roots only, as in the code. What
  was printed is recorded by what the properties ask: the level, whether the message or
  one above it is hidden, whether its root is rolled or off topic. The flat list
  (`printhtmlindexhron_wothreads`) and the marks of new messages are left out.
* `ThreadPage`: once no root of the thread has been shown, the code reads each run that
  goes forward from the thread's root on, whatever is there: then the page is `astray`
  and any message of the file may come, or it fails (`lost`).
* `BoardTags`: a text is a sequence of tokens; a tag has valid parameters or is
  letters. What a tag becomes in HTML is its expanded form, not the characters. The limit
  of the result's length is left out.
* `TextFilters`: a text is a sequence of pieces, where `&` and what is behind it are two,
  so that a text may hold what looks like a replaced character. Lengths are in bytes,
  as in the code. Bad words and the ban list are tables of strings: left out.

### Abstractions of the other modules

* `NameIndex`: a name's entry takes `Size[n]` units of a block. `GenerateHashwordList`,
  which nobody calls, reads like `GenerateIndexList`. A reader reads a block at once;
  readers keep, as history, what a name's place has been since they began. `dbtool`
  or the first registration has created the file.
* `UserRecords`: a message's text is left out, its position in the file is its number.
  Requests check their session first, which writes the record back (`Touch`).
  The page of favourites clears any of them, as threads come and go.
* `AltNames`: a user's number is never used again. A file with 100000 bytes behind the
  record to be deleted, where `DeleteAltName` gives up, is left out.
* `PostGuard`: address and message are one visit. The file's other list, of posters, is
  read only, since `MarkPostfromIPInvalid` has no caller; so `CheckOnly` lets every
  post through, although the comment above `main.cpp:3084` says "Mark that IP".
* `Announces`: text and dates are left out. The file exists and writes succeed; a
  process may be killed between the two steps of a deletion.
* `ActivityLog`: `RegisterActivityFrom` is one step after the time was read, because
  it holds the locks of both files, taken in one order; the file shown is unlocked
  early, but nothing is done to it afterwards. Its files exist.
* `DbTool`: `-nm` and `-nu` on one data file and its list, while no request runs; after
  it the lists are used by posts as before.

## 3. The runs

| run | question | outcome |
|---|---|---|
| `files` | `messages.msg` with its list (sizes 0 to 3, a pad of 2, two processes that create the list at once); visits; announcements; the activity log; messages and favourites of two users; alternative names. Each under two requests | records and free entries never overlap and no byte is lost but by that creation, `BlockStore` is implemented; visits counted once; numbers of announcements rise and none is lost; numbers of a period are its own; chains as long as counted, nothing lost one after the other; one spelling per user, the one the record says, but for users given one without a right of their own |
| `pages` | every sequence of threads, replies and deletions on four headers; every board of five messages on the index page, of seven on the page of a message; every text of five tokens or four pieces | the runs walk like the plain order; nobody is shown what he may not see; numbers and lists are right; only the own thread is listed; texts are stored and edited as typed, tags typed in pairs are expanded in place, no entity is cut |
| `store_kept` | any three requests of every kind, one after the other, from an empty and from a used database; three posts at once, or an edit among posts, closes and reads | all files agree when no request is under way; nothing shared, lost or miscounted |
| `store_moderated` | a deletion or a post, by a request that may be killed at any step, among posts, closes, opens and reads | nothing shared, numbers name their messages, a closed message stays closed, every request ends |
| `accounts` | any three requests one after the other; two at once of those that remove nobody; three at once of which one removes a user | names, places and counters agree; a session acts for its own account, ends by right and for good |
| `names` | two requests that add and delete names, a third that looks up and lists without a lock; blocks of 3 units, names of 1 and 2 | a map from names to places is implemented, also when a request is killed; readers see what was so while they read |
| `list_io_error` | I/O error while the list is read or written | violated: the error code 2 is taken for a place |
| `store_edits` | two edits of one message | violated: its old body is handed back twice |
| `accounts_removed` | removal of a user who has a session that is not bound to an address | violated: the session stays open |
| `log_rotation` | the numbers shown in the moment of archiving | violated: the archived period's numbers are shown |
| `messages_renewed` | `dbtool -nm`, then posts | violated: the old free lists hand out places of the new files twice |
| `rolled_page` | threads shown in the rolled view | violated: one less than asked for, the last is held back and never printed |

The last six are disagreements of the code with a line of the repository, quoted in
`findings`.

### What the passing runs leave out, and why

Some pairs of requests break a property, and no line of the repository promises
otherwise. The runs keep these pairs apart (`MCMsgStore`, `MCAccounts` say what each
request may ask for), so a property is shown for every other mix. Each is a
hazard in `PROJECT.json`:

* two deletions of one thread count it down twice (`ThreadCount`);
* a reply into a thread that is being deleted stays, under another thread, or its
  header and number stay outside the index (`ForestShape`, `IndexAgrees`,
  `NothingLeaks`);
* a reply into a thread that is being closed is open (`RepliesInherit`);
* a thread rolled, hidden or shown as XML while it is closed is open again
  (`ClosedStaysClosed`): `DB_ChangeRollMessage` says itself that it lacks the lock;
* a close that waits while its message is deleted closes the message that took its
  place (no property);
* two removals of one user hand his places back twice (`PlacesAccounted`);
* a record read before a removal or `ModifyUser` is written back by `SetUInfo`
  over what is there then (`NamesAgree`, `PlacesAccounted`);
* a session is renewed before it is compared with the age of the account, so a
  second request between the two passes (`SessionNamesItsAccount`);
* a request in a session that has outlived its account, while another is registered in that
  place, writes the old record over the new one (`NamesAgree`);
* a login that has looked its account up opens a session for it after its removal
  (`BoundSessionsEndWithAccount`);
* a message is lost from the chains of a user whose record is written back by a
  request that read it before (`MessagesKept`, checked one after the other), and so
  are favourites (`FavsKept`);
* a user who posts announcements deletes somebody else's if it is the last one
  (`Found`; no property);
* two requests that change one user's spelling leave a record in the file that no user's
  record names (`SpellingsAgree`, checked one after the other). One after the other that
  happens to users who were given a spelling without a right of their own, when they were
  registered or by a superuser: the history variable `unchecked` has them, and
  `SpellingsAgree` asks of them only that the file agrees while their record says that they
  have a spelling;
* a user writes a message to himself, and another request writes his record between the two
  readings of it (`profiles.cpp:760`, 771): the message is linked to what the later copy
  says was posted last (791), the number posted is the earlier copy's (810). The history
  variable `mixed` of `UserRecords` has these users; `ChainsCounted` exempts the number they
  have posted, and nothing else;
* texts whose tags are not closed in order by their own kind, or have tags within
  preformatted text, pictures and the like (`ExpandedInPlace` is about the others; see
  below);
* the page of a message whose thread's root is hidden from the reader goes on with other
  messages (`OwnThreadOnly` of `ThreadPage` fails; `OthersNotListed` is checked where the
  root is shown). Only superusers are given links to such messages.

Other things met while modelling that no line of the repository speaks about:

* the dates of a session and of an account are compared to the second (`logins.cpp:434`): a
  session used in the very second in which another account is created in the place of its own
  goes on as that account's. `SessionNamesItsAccount` exempts such a session and what
  follows from it (the history field `heir` of a request);
* after a rolled message of level 2 a rolled one of level 1 leaves `invflag` at 2, so a
  reply of the second is shown; a superuser sees hidden threads unrolled in the rolled
  view;
* a closing tag closes the tag opened last, of whatever kind: `[b]x[/i]` is printed as it
  stands, an opening tag of one kind and a closing tag of another. Closing tags are
  looked at where opening ones are not (`boardtags.cpp:756` says "disable tag parsing"), so
  in `[pre][b]x[/b][/pre]` the preformatted part ends at `[/b]`. A picture within a link
  allows links again inside the link when it is closed;
* the right to a spelling is that of whoever asks (`main.cpp:1522-1528`). A superuser, who
  always has it (`logins.cpp:469`), may give one to a user who has not: that user's next
  change of profile clears the flag and leaves the file alone, and so does that of a user
  who was registered with a spelling by one who has the right;
* the mark of a new personal message (`main.cpp`, near 4755) has a condition that is never
  true; the end mark of `ReadPersonalMessages` is written one place behind the list;
  `dbtool -np` cuts `profpers.db` after it has unlocked it;
* `main.cpp:740-766` and `dbase.cpp:1987` offer links and forms that the handlers
  (`main.cpp:3625-3660`, 3881, 4338) then deny.

### Bounds, and why they are enough

* `MaxEnd`, `MaxList`, `MaxCreators` of `DataFile`: with sizes up to 3 a file of 8
  bytes holds three blocks next to each other, of which any can be freed in any
  order and served again split; four list entries allow two neighbours, an empty
  one and an appended one. The proofs show that no larger instance behaves
  differently for the safety properties.
* `MaxSlots = 4` of `MsgIndex`: a run of three can be split in the middle and has
  neighbours on both sides; four headers of two bytes give every pair of directions. The proofs cover headers of any
  size and any number of them.
* `IndexPage`: one or two threads asked for, five messages in three levels: a message
  held back, one below it and one behind it, in each of two threads. The proofs cover
  all larger boards.
* `ThreadPage`: seven messages in four levels: a hidden message with two levels below
  it, one beside it, and another thread before and behind.
* `BoardTags`: five tokens with two tags nested at most, so that a third is one too many,
  and three alphabets: letters, spaces and tags that nest; addresses, smiles, preformatted
  text and links; pictures, with what is not looked at inside them. `TextFilters`: four pieces, which is an entity typed and one made.
* `Procs` of `MsgStore`: the conflicts are between two requests; three allow one
  to act between two others. `Seeds`: the empty database, one with two threads, a
  reply and a free place, and the same without a free place, where the first
  place to be freed is the next to be used.
* `alone` in `MsgStore`, `UserRecords`, `AltNames` and `ActivityLog` makes requests come one
  after the other; plans without it let them overlap.
* `Accounts`: `TTL = 2` and `MaxTime = 3` let a session expire, be renewed in the last
  second and be too old; an account may be removed and created again and its
  place given to another name by three requests. `MaxSessions` and `MaxUsers` exceed what
  three requests can use from the databases to start from, which a plan names: nobody
  registered (`Empty`); `ann` registered with two sessions, one of them not bound to an
  address (`Used`); `ann` removed, and that session goes on (`Left`), so that three requests
  are enough to register another in her place and to use her session. Requests are interchangeable, so
  `Procs` is a symmetry set; there is no liveness property in that run.
* `NameIndex`: three names of one chain, of which two short ones or one long one
  fit into a block of 3 units with its zero: every name may be first, share a block,
  or need a new one; four blocks allow two to be added to the two heads, one of them
  lost by a kill.
* `UserRecords`: four places and five threads make insertion shift up, shift down, and
  find no room; two messages overlap in every way that two requests can, or
  make chains of two; pages of one message.
* `AltNames`: two users, two spellings, two requests; two users may be registered when
  requests come one after the other, one otherwise.
* `PostGuard`, `Announces`, `ActivityLog`: a list of two visits of three, four counted in
  all; four announcements; periods of two ticks, four hits within three periods.

`files` and `pages` do not check deadlock: their bounds stop a behaviour, a page ends, a
list or a text is full. Neither do `list_io_error` and `messages_renewed`. In the other
runs requests that have ended stutter (`AllServed`), so that any other stop is found.

### Fairness

`FairSpec` of `MsgStore` asks weak fairness of each request as a whole: the
operating system runs every runnable process, and one that waits in `flock` is
served when the lock is free and stays free. Nothing is assumed of arrivals:
`Begin` is not fair. A request takes each lock a bounded number of times, so
no process can keep another from a lock for ever and strong fairness is not
needed. `EveryRequestEnds` would fail if two operations took `fm` and `fi` in
opposite orders or if an exit left a lock behind.

## 4. The proofs

Each theorem is for all values of the constants that its module allows
(its `...Assumption`, or `...Constants` where the theorem assumes it): numbers are natural
numbers, sets may be any, nobody is not somebody. `AccountsAssumption` also says that the
databases to start from are sound and that a request that needs a name has one,
`MsgStoreAssumption` that they are `Settled`, `NameIndexAssumption` that an entry and a zero
fit into a block. TLC evaluates all of them with the values of the runs.

**Message database** (`MsgStore_proofs`, `MsgOrder_proofs`, from `MsgStoreAssumption`), in
layers. Each is an inductive invariant with a lemma for each action, and the next ones rest
on it.

1. `PlacesInv`, for any requests at once, in any order, any of them killed anywhere. A place of
   the header file is shown, or free, or held by one request: by one that posts from when
   it took the place until the message is in the display order, by one that deletes from
   when it cut the message out until it has handed the place back (`PlacesOwned`). This is
   not inductive without what a request's memory says of the files (`Fits`) and who
   holds `fm` and `fi`. Two requests may delete one thread at once: each cuts out only what
   it finds in the order, under the lock. Theorems: `TypeHolds` (`TypeOK`) and `PlacesApart`
   (`PlacesNotShared`), the half of `NothingShared` that needs no order among requests.
2. `OrderInv`, for requests that are `Orderly`: one after the other, or at once if they post,
   read, close or open and at most one deletes or edits. A number shown leads to its own message
   or nowhere (`Numbered`); while nobody was killed, a number leads to a header of its own
   message and no two to one place (`KnownNumbers`); the header in a request's hand is that in
   the file but for flags (`Copied`); what is still to be deleted, edited or replied to is
   shown (`Dooms`, `Edits`, `Answers`). Theorem `NumbersLead`, `Orderly /\ Spec =>
   []NumberNamesItsMessage`. Each part of `Orderly` is needed: of two edits of one message both
   hand its old body back (`store_edits`); an unlocked operation (hide, roll, topic, XML)
   writes back a header that an edit has changed meanwhile; an edit killed between handing
   the old body back and writing the header shows bytes that are free; and an edit of a
   number that is handed out only while it waits may meet a half-made message.
3. `BytesInv`: each byte of the body file has one owner at most: a shown message, a request
   that carries it (`InHand`), or the free list. An edit passes bytes between the message, its
   own hand and the list; every action is an instance of one lemma about such a transfer
   (`SharesPass`). Theorem `BodiesApart`, `Orderly /\ Spec => []NothingShared`, with kills.
4. `TallyInv`: `threads` plus the thread about to be cut out is the number of thread heads
   shown plus the thread about to be shown (`Tally`); where nothing is killed and nobody deletes
   while others are at work (`Keeping`, `Mortal = {}`) what is shown has its number
   (`NumbersStay`) and no place is lost (`PlacesKept`). Theorems `ThreadsCounted`, `Orderly /\ Spec
   => []ThreadCount`, and with the extra hypotheses `AgreesBetweenRequests` (`IndexAgrees`) and
   `NothingGetsLost` (`NothingLeaks`). `Mortal = {}` costs these two nothing: they speak of
   states where all requests have ended by themselves. `Keeping` is needed: a reply into
   a thread that is being deleted leaks (section 3).
5. `ClosedUntilOpened`, `Orderly /\ Spared /\ Spec => ClosedStaysClosed`: a closed message is
   opened by who is asked to and by nothing else. `ClosedInv` says that the flags which a
   reader, or who opens it, has in hand under the lock are those in the file, and that an
   edit which found it open finds it so still. `Spared`: nobody edits while another closes. It is
   needed, since an edit writes back the flags it read before it waited for `fm`.
6. `ShapeInv`, in what requests that are `Orderly` and `Keeping` do while nobody is killed: the
   display order is a forest (`Forest`): each message is at most one level below the one above
   it, and names the head of its thread. It is not the order shown that keeps this while a
   thread is deleted message by message, but the order without what the deletion has still to
   cut out (`Staying`): that is a forest from the moment a deletion has chosen its branch, since
   what follows a branch is no deeper than its root. Beside it, who answers a message has the
   level below it, its thread and, when alone, its flags in hand (`Inherits`). Theorems
   `ThreadsStayTrees`, `Orderly /\ Mortal = {} /\ Keeping /\ Spec => []ForestShape`, and
   `RepliesTakeAfter`, `Orderly /\ Mortal = {} /\ Spec => RepliesInherit`.

The plans of `store_kept` are `Orderly` and `Keeping`, those of `store_moderated` `Orderly` and
`Spared`.

**Name index** (`NameIndex_proofs`, from `NameIndexAssumption`): `IndexIsMap`, `Spec => MapSpec`, the
refinement of `NameMap`; `NoLockNeeded` (`ReadersRight`), what look-ups and lists without a lock
answer; `ShapeHolds`. A chain is known by two facts only: it contains its head and all links
that leave its blocks, and it is in every set that does (`ChainHolds`, `ChainLeast`). The
invariant `IndexInv` says that a name has one entry, in the chain of its hash value, and that
links lead forward to blocks that no other chain has (`Sound`); that a reader has still to
read the block with the name it looks for, unless it has found it or the name came or
went since it began (`ReaderRight`); and that a request about to link its new block holds the
lock, and that the block is in no chain yet (`LinkRight`): if it is killed there, the block
stays unreached and the map unchanged. `BlocksKeepRoom` (`RoomForZero`): the entries never
fill a block to its end. What a block holds is a sum over its entries, which grows by an
entry only where there is room for it and a zero, and shrinks by any deletion.

**Space** (`Files_proofs`, from `DataFileAssumption`): `SpaceSafe`, `Spec => []SpaceInv`;
`RecordsDisjoint`, `Spec => []LiveDisjoint`; `FreeSpaceDisjoint`; `Implements`, `Spec =>
StoreSpec`, the refinement of `BlockStore`. `LiveDisjoint` alone is not inductive: a block
served from the list is disjoint from the others because free entries are disjoint from
blocks in use, and stays so because free entries are disjoint from each other; an append
is safe because everything lies before `end`. `SpaceInv` is the conjunction of these facts
with the types. The refinement needs it to show that the block handed out is new.
`BytesKept`, `Spec => NoByteLost` where nothing counts as waste: a byte that is in use or in
the list (`Known`) stays so, action by action.

**Sessions** (`Accounts_proofs`, from `SessionsAssumption`): for any callers of the four
functions, `NumbersStayUnique` and `NoneRevived`, `SessionSpec => OverForGood`. An entry that
is renewed was open, and because its number is in no other entry no session that is over
becomes open by it; the number of a new entry exceeds every number given before. It
holds however long a caller has waited for the lock with an old reading of the clock.

**Accounts** (`Accounts_proofs`, from `AccountsAssumption`): the same of all requests,
`RequestsReviveNone`; `SessionsEndByRight`, `Spec => EndsByRight`; and `AccountsTypes`, `Spec =>
[]TypeOK`. The invariant `AccountsInv` says that sessions, the name index and the memory of
every request point to records that are there (`FilesInv`, `Points`), that requests that
work on a name have one (`HasName`), and that who is about to close another session of his
own from the list owns it (`OwnsOther`). The last is what `EndsByRight` needs: it stays true
while others open, close and renew sessions because no step changes the owner of a number
(`OwnersKept`). Each action is a lemma; `SessionEffect` names what a step may do to the
sessions, and the lemmas about `Sessions` carry over.

**Names, places and owners of sessions** (`Accounts_proofs`): `NamesStayInAgreement` (`NamesAgree`),
`PlacesStayAccounted` (`PlacesAccounted`) and `SessionsKeepToAccounts` (`SessionNamesItsAccount`),
each `Sound /\ Spec => []...`, and `RemovedStayOut`, `Sound /\ Severed /\ Spec =>
[]BoundSessionsEndWithAccount`. They fail for some mixes of requests (section 3), so the
hypotheses name those for which they hold. `Sound` says that the database to start from is
in order and that requests keep `Apart`: they come one after the other; or they are at work at
once, and then nobody modifies an account, and either nobody removes one, or one request does
and nobody registers. `Severed` adds that nobody logs in while another is removed. All plans of
the run `accounts` are such; the theorems are for any number of requests, names and
databases.

The invariant `RightInv` adds to `AccountsInv` what a request's memory says of the files
(`RecordRight`): the record that `SetUInfo` will write back is the one in the file, so that
writing it changes nothing; the place to be deleted is still that of the name; the creation
date that `ModifyUser` will write is that of the account. For sessions (`EntryRight`,
`SessionRight`): an open one whose place has a user is that user's; or it expires within one
lifetime of that account's creation, so that `OlderThanAccount` will reject it unless the two
dates are equal; or it is an `heir`, which was let through for that reason; or a request
has renewed it a moment ago and has still to judge it, which it can do since it remembers
what the entry said before. That is why a session is proved to name its account only up to
heirs, and why requests at once are restricted: a second request that presents the
same number between the renewal and the judgement is let through. `GoneInv` is for removed
users: nobody has the UniqID of one whose sessions are to be closed or have been, nor will
anybody get it, because new ones exceed `lastUniq` (`Nobodys`); and who is about to open a
session has the record of a user who is there, or nobody has been removed at all.

**Index page** (`Pages_proofs`): `HiddenStaysHidden` (`Spec => []ShownToReader`),
`RepliesStayFolded` (`ThreadsFolded`), `ListsStayBalanced` (`ListsBalanced`), `RepliesCounted`
(`SkippedRight`), `PageTypes`, for boards of any size and depth. None of them is inductive
alone: what a step shows depends on `invflag` and `collapsed`, so `PageInv` relates these
to the path from the root to the message read last. A message that is deeper than the
next list stands below one left out, whose level or a smaller one is in `invflag`
(`LeftOutAbove`); below a hidden message `invflag` has its level or a smaller one, for all
but superusers (`HiddenAbove`); in a thread that is rolled or off topic it is 0
(`FoldedAbove`). `LeftOutAbove` is why lists balance: a shown message is at most one level
deeper than the one shown before. `ThreadsCountedRight` (`CountsRight`) adds `CountInv`: the threads
counted are those printed, the one held back, and one more when the page ends before it.

**Page of a message** (`Pages_proofs`): `OnlyTheThread` (`OthersNotListed`): no
message of another thread, none that is hidden, and lists that balance. `CourseInv` says the
same of this page's flags while it reads the thread, and that beyond it only roots hidden from
the reader have been met.

**Alternative names** (`Files_proofs`): `OneRecordEach`, `Spec => []OneSpelling`, for any number
of requests at once. The file is searched under its lock, so the caches, which may be
stale, do not matter. `FileAgreesWithRecords` (`SpellingsAgree`), for requests one after the
other (`OneAfterTheOther`): then a cache that is filled is the file, and who changes a
profile without the right to a spelling is its owner, whose record has no such right either
(`AskerRight`). Between requests every user is `Settled`: the file has what the record says,
or a spelling given without a right of the user's own.

**Announcements** (`Files_proofs`): `NumbersStayOrdered` (`NumbersGoUp`), `NoneLost`
(`OthersStay`). `AnnInv` says who holds the lock and what a deletion that was killed between
its two steps has left: one record that stands twice, the last.

**Visits** (`Files_proofs`): `CountedAgainRightly` (`CountedOnce`), for a list of any length
and requests that wait with an old reading of the clock for any time. The invariant is a
map from the places of the list to the visits that were counted: each visit counted is in
the list at its place, or there are as many as the list has further entries that were as
late.

**Activity log** (`Files_proofs`): `PeriodsStayRight` (`PeriodsRight`), for periods of any length.
`LogInv` says that each of the numbers kept, as records, summed up, shown or archived, is that of a set of
hits of its period, of which at most one came in its first second (`Counting`), and, for requests
one after the other, that none is missing. The latter needs that no hit comes for what has been
summed up, so the two files have to take turns (`FilesInTurn`): they begin a period apart; one
that is summed up is over and earlier than the other; one that is not has had no hit in the
period after its own, since that would have summed it up; and file 2 begins at most two periods
after file 1, which is why two hits in one second never begin both files at once (`Turns`). That
the sum of a list with one count more is one more (`TotalOneMore`, `TotalAppended`) is shown by the
first place where two running sums would part.

**Personal messages and favourites** (`UserRecords_proofs`, where `PlansRight`): `MailStaysCounted`
(`ChainsCounted`), `NoMailLost` (`MessagesKept`), `FavouritesStaySorted`, `FavouritesKept` (`FavsKept`).
`RecInv` says of every record, in the file or in a request's hand, that it is that user's and counts
what its chains have (`Right`). A record in hand may be old; it stays right, because messages are only
added at the end of the file and a chain leads to earlier ones, so its length depends on
nothing that is written later. So the counts agree whatever is written back over what; what gets
lost are messages, and for requests one after the other `KeptInv` says that records in hand are
those in the file and that each message is reached from its recipient and from its sender.
`PlansRight` says of what is asked for that it is of its type, and nothing more. A user who writes
to himself is recipient and sender: his record is read twice, and another request may write it in
between. Then the message is linked to one copy and counted in the other, and the user is `mixed`
from then on: his chains are still of his messages, but the number posted need not be their
length. When requests come one after the other the two copies are the same. The pass of
`CheckandAddFavsList` that moves favourites up or down to make a place is shown to keep them sorted and
to add that one for every number of places, by what is so after each step of it (`Along`).

**Index file** (`Pages_proofs`, from `MsgIndexConstants`): `RunsKeepParents`, `TableSpec =>
OrderSpec`, the refinement of `ThreadOrder` together with `ParentsKept`; `RunsShowTrees`
(`ShapeIsForest`). An entry of the file is a run of n neighbouring headers from the k-th on, shown
one way or the other (`Runs`), and shows the list `Up(k, n)` or `Down(k, n)`; the file shows these
lists joined (`Walked`). Each of the three ways to write entries anew is shown to do to the list of
its own run what the plain operation does to the whole (`ReplySplits`, `ThreadJoins`,
`CutLeaves`), by cases of the run's direction and of where in it the message is; what
is shown before and after it stays (`RegroupMid`). The right run is found because no header is shown
twice and a run covers no header but its own (`EntryFound`, `CoversItsOwn`). That a message is shown only
once is part of the invariant `TableInv`; so is that the messages that stay form a forest
(`KeptForest`), and, while a thread is being removed, that below a message that is to go what stays
starts a branch of its own (`KeptBranches`): so `getparent`, which reads only levels, never takes one
that is to go for the parent of one that stays. No level exceeds `MaxSlots`, because a message is less
deep than there are messages above it, and no more are shown than the file has headers.

`ListLemmas` has what these proofs need of lists: the least element of a set of places, a
list without one element or without its last, what a search finds; and of trees that are kept
as a list and levels (`Forest`): they stay trees when a message is put in its place or a
branch is taken out, and each reply has one parent, which `getparent` finds.

Only model-checked: liveness (`EveryRequestEnds`); what computes by recursion over data, where a proof
would be an induction over it: the tags of `BoardTags` and the filters of `TextFilters`
(`StoredAsTyped`, `ExpandedInPlace`, `CutsWhole`).

## 5. Not modelled, and why

* `printhtmlindexhron_wothreads`, the flat list of messages, and the marks of new
  messages: it prints one more than the number asked for and compares with a date that
  is not set, so a model would be of whatever is in memory.
* Bad words (`speller.cpp`) and the ban list: tables of strings. The length limit of
  `FilterBoardTags`.
* Parsing of parameters, cookies and forms, and the checks of rights in the handlers of
  `main.cpp` that have no state of their own.
* The counters of posts and logins of an account and the list of users.
* `dbtool -cp`, `-r`, `-v`, `-vs`, `-fixcr`: off line copies, listings and repairs.
* Mail, log, error pages, file system statistics: input and output only.
* I/O errors other than those of the list file: they end in
  `printhtmlerror()`, which `store_moderated` treats as a kill at the same place.
* `n_log.cpp` is in no build target; `clean.py`, `tools/` and `static/` are scripts.

## 6. Plan

1. `DataFile` and its proofs, `MsgIndex`, `MsgStore`, `Sessions`, `Accounts`: done.
2. `NameIndex`, `UserRecords`, `PostGuard`, `Announces`, `ActivityLog`: done.
3. `DbTool`, `AltNames`, `IndexPage`, `ThreadPage`, `BoardTags`, `TextFilters`: done.
4. Proofs of all of these but `BoardTags` and `TextFilters`: done.
5. Left: an edit that is killed (`dbase.cpp:1776`), the creation of the small files by two
   requests at once, failing writes of announcements and their roll-back, the list of
   users.
