# Verification of the grab-bag repository

The repository is a collection of programs rather than one system: a C++
library (`cpp/gtp_library`), a handful of network and threading programs,
command-line tools in Python and Bash, and small PHP and ActionScript
applications.  This directory holds TLA+ models of the parts that carry logic
of their own, the TLC runs that check them, and proofs checked by TLAPS.

## 1. Inventory

State, operations and hard behaviour of each component, and what makes it
correct.  "Module" names the model; a dash means that there is none (see
section 7).

| Component | State | Operations and interactions | Hard behaviour | Correct when | Module |
|---|---|---|---|---|---|
| Barrier program, `cpp/barrier_with_condition_variable.cpp` | counter `c`, `shared_mtx`, `cv`, `cout_mtx` | `main` starts and joins workers; a worker counts, notifies, waits | interleavings, spurious wakeups, nested mutexes | nobody passes early, everybody passes, `main` returns | `Rendezvous`, `CondVarBarrier` |
| Database wrappers, `cpp/gtp_library/src/gtp/db` | the `MYSQL` handle and its `is_initialized` flag; the `MYSQL_RES *` of a result set; the client library's connection status | `connect`, `query`, `store_result`, `close`, `fetch_row`, constructors and destructors | the order of calls; results that outlive the connection; a wrapper used twice; failures in the middle of a conversation | each result is freed once, nothing is used after it is freed, a true `store_result` yields the rows of that query | `DatabaseInterface`, `MysqlWrappers` |
| Database programs, `.../app/applications/*query.cpp`, `.../app/tests/example.cpp` | program position, one connection, one or two result sets | a fixed order of wrapper calls with branches on the results | a failed call whose result is used | a row is looked at only when there is one; everything is released | `QueryPrograms` |
| Fork servers, `cpp/sockets/server` and the C twin `c/server.c` | listening socket, accepted connection, children, pending SIGCHLD | set-up loop over addresses, `accept`/`fork`/`close`, handler per child, SIGCHLD handler; in C a child also runs a helper through a pipe | signals that merge, a handler inherited by children, failures of each call | every dead child is reaped, descriptors are not leaked, each client is let go | `ForkServer` |
| Periodic runner, `shell/crontab_second.sh` | pid file | check, create, trap, loop; started repeatedly by cron | check-then-create, traps that set each other off, a kill that cannot be trapped | at most one instance, and it is kept alive | `PeriodicRunner` |
| SFTP player, `python/sftp_mp3.py` | cursor, window, marks, the player process of the current track | keys, refresh, resize, play one or several tracks, stop | a process that ends while a key is handled, Control-C at any point, a folder that changed | the cursor is on the screen, marks stay on their tracks, no player is left behind | `SftpPlayer` |
| Kubernetes provisioning, `vagrant/k8s` | machines and how far each is, the folder they share, the load balancer | up, down, start, stop; in a machine: common steps, then found or join a cluster | order between machines, scripts that stop half way, files of an earlier cluster | nodes join the cluster of the first control plane and keep its kubeconfig | `ClusterUp` |
| Mail programs, `cpp/email_with_curl` | lines of the message, the counter of lines read, libcurl's list of recipients | build the message, encode and cut the attachment, answer libcurl's callback | lengths and remainders, state between two callbacks, failure of the transfer | the recipient gets every line once and decodes the attachment; no buffer is overrun | `CurlEmail` |
| Library start-up, `mysql_driver.cpp`, `application.cpp`, `sub_program.hpp`, `main.cpp` | function-local singleton, the global vector of sub programs, what the linker takes in | static initialisers of several files, `run`, static destructors | unspecified initialisation order between files, members of an archive that nobody refers to | every registration is still there when `run` starts, and its program runs | `Application` |
| Asio echo session, `real_socket_test.cpp` | connection, pieces on the way, a buffer | accept, read, write back; connect, send, close | a stream that is cut anywhere, a peer that ends or resets | each error ends the program, which returns | `Application` |
| Socket client, `cpp/sockets/client` | one socket | connect, send, receive | - | the answer is printed | - |
| Long polling, `php/long_polling` | data file, temporary file | append, take the first line by `head`/`sed`/`mv`, poll | read, modify and write by several processes, files replaced while they are open | each message is delivered once and in order | `LongPolling` |
| Login system, `php/my_framework/loginSystemClass` | users, activation codes, mails, sessions | create, activate, log in | check-then-insert, partial failure, expiry | one account per address; a code activates its own user | `Accounts` |
| PCTracker, `php/PCTracker` | table of computers | register, track, view | count-then-insert | number and password lead to the address the computer reported | `PcTracker` |
| Pins, `robotics/hardware/cpp` | pin value, destination, handler | connect, `set_value`, handler callbacks | cycles | the value set reaches the end of the chain | - |
| Image cleaner, `python/container_image_cleaner.py` | image list, ticks, scroll window | keys, delete selected, reload | terminals of any height, a list that is fetched again | the highlighted row is shown | `ImageCleaner` |
| GitLab executor, `gitlab_runner/podman` | containers, directories, registrations | start, stop; prepare, run, cleanup | failure at any stage, containers that end by themselves | a job leaves nothing behind | `PodmanExecutor` |
| KMS cryptor, `k8s/kms_cryptor.sh` | key file, plain and cipher text | generate, encrypt, decrypt | lossy command substitution, key overwritten | decrypt returns what was encrypted | - |
| File server, `flask/one.py` | open file, bytes sent | iterate, close, log | a client that goes away | logged as finished only when finished | - |
| Peer streams, `flash_action_script/*/stratus` | peers of each stream | connect, peer connect, disconnect events | events in any order | peer sets follow the connection | - |
| Netboot gateway, `vagrant/netboot` | downloaded binaries, services | download, configure, start | repeated and partial starts | machines boot what was downloaded | - |
| Pure algorithms, `remove_non_digit_chars`, `change_bit_in_integer`, `sum_elements_array_before_and_after` under `cpp` | loop counters, partial results | three versions of a digit reader; test, set and clear a bit; the index between equal sums | overflow of counters, powers and sums, the sign bit | equal to their definition | `DigitStrings`, `BitProcessor`, `BalanceIndex` |
| gRPC pair, key reader, Ceph script, shell scanners, Pascal programs, HTML and mail framework, Flash demos, configuration | small or none | small | see section 7 | - | - |

The components interact little: the database programs call the wrappers, the
wrappers call the client library; clients of the fork server share with it
only the connection; instances of the periodic runner share a pid file, the
machines of the Kubernetes stack a folder and the API of a cluster, requests to
a PHP site its file or its tables.

## 2. Plan

Done, in this order: `Rendezvous` and `CondVarBarrier`; `MysqlWrappers` with a
client that makes any calls, then `QueryPrograms`, which runs the repository's
programs on top of it; `ForkServer`; `PeriodicRunner`; `SftpPlayer`;
`ClusterUp`; `CurlEmail`; the three algorithms; the PHP sites; the abstract
`DatabaseInterface`, which the wrappers refine; `Application`, `ImageCleaner`
and `PodmanExecutor`.

Then the proofs, component by component: first those named in section 7 that
have a module of their own, then the PHP sites (`WebSitesProofs`) and the
programs side by side (`ProgramsProofs`).

Last came what is computed: that a base64 text decodes to what was encoded, that
a string of digits is read, that one bit changes.  Their definitions are folds
and powers, and each proof begins with what its fold is.  Every invariant of the
runs is a theorem now; what stays with TLC is liveness.

## 3. Modules, and how they correspond to the code

Each action is one operation of the code with everything it does up to the next
point where somebody else can act; definitions keep the names of the source
where they have one, and `PROJECT.json` gives the lines of each.  An operator
whose comment begins with "Mutant of" is a plausible error in the definition
that follows it, kept to show that the properties notice it; no specification
uses one.

**`CondVarBarrier`** has a label per statement of `worker` and `main` that
touches shared state; `LOG` is two steps, taking and leaving `cout_mtx`.
`cv.wait` with a predicate is the loop it stands for: test, give the mutex up
and sleep in one step (`WaitSleeps`), wake up (`NotifyAll`, or
`SpuriousWakeup`), take the mutex back, test again.  The two threads of the
program are a set `Workers`, and the literal 2 of the predicate is `Target`.
`Rendezvous` is the abstract specification: nobody passes before all have
arrived, then all do.  `CondVarBarrier` implements it under the mapping
`arrived <- Arrived`, `passed <- Passed` (workers past `c++`, workers past
`cv.wait`).

**`MysqlWrappers`** has one action per method of the two wrapper classes,
constructors and destructors included; a client may call them in any order the
interface allows.  The client library is modelled from the calls the wrappers
make: a handle with its link and pending result, and a heap of `MYSQL_RES`, in
which an address that was freed may be used again.  Every call may fail as its
interface documents.  `promised` is history: the statement whose rows
`store_result` last announced.

**`DatabaseInterface`** is what the two interface headers promise, without
handles, addresses or anything to free: an object holds rows or none, and a
connection is there or not.  `MysqlWrappers` implements it under the mapping
`connected <- Connected` (the link of the handle of an object that lives),
`waiting <- Waiting` (the result that is pending on it), `rows <- Rows` (what
the pointer of a wrapper leads to in the heap), `promised <- Promised`; creating
and freeing results in the library are hidden by it.  It says more than that
results have one owner: rows never change because of what is done to another
object, though their memory is handed out again.

**`QueryPrograms`** extends it.  A program is a table: what it calls at a
label, and where it goes on success and failure (`Detailed`, `Fast`, `User`).
Calls are those of `MysqlWrappers`, so that a program meets every failure that
the library may have.  The stores of a program are not restricted (`Reuse` is
TRUE there): that it never stores twice into a wrapper is shown, by
`NothingLeaks`, not assumed.

**`ForkServer`** models `ServerSocket` and `c/server.c` in one module; what
differs, the command behind a pipe, is under `usesPipe`.  The parent sets up
its socket, accepts, forks and closes; errors that only print a message go on
with the descriptor -1 (`Bad`), as in the code.  Children inherit descriptors
and the SIGCHLD handler.  A pending signal is one bit per process, the handler
is a loop of its own, interrupting the process it runs in.  Process table
entries (`Pid`) are used again after they were reaped.

**`PeriodicRunner`** has a step per line of the script, because instances
overlap, and the traps with what they set off: `exit` inside a trap leads to
the EXIT trap, an `rm` that fails there may lead to the ERR trap.

**`SftpPlayer`** is the curses program: `files`, `cursor`, `offset`, `marked`
are the fields of `PlayerUI`, a key and the redraw that follows it are one
action, and the modal window of a playing track goes step by step (`Popen`,
the loop of `getch` and `poll`, `_kill_proc` with SIGTERM and SIGKILL, the
`finally` block), since the player may end, the user may type Esc, and
Control-C or a hang-up may arrive between any two of them.  A player may ignore
SIGTERM (`"deaf"`) or every signal (`"stuck"`, as in an uninterruptible sleep).

**`ClusterUp`** is `manage.sh` twice: `Host` are the commands of the user,
`Script` what happens inside the one machine that is being provisioned.  A
cluster is the number of its `kubeadm init`; a shared file is known by the
cluster it is of, or is `Missing`, or `Useless` (its token failed or expired).
`Fail` lets any command fail, after which vagrant brings up no more.  A failure
that the script hides is a choice of the step instead: `RemoveTaint` may leave
the taint (`tainted`), and with it the control plane takes no other pods, the
metrics server's included (`MetricsCanRun`).  An address that none of the
ranges has (`Roles`) ends the script with success and nothing done.

**`CurlEmail`** builds the message of `main.cpp` line by line, with base64 and
the loop over chunks computed on values, then sends it (`main.c` starts with
its message made).  libcurl appears as the calls it makes: `payload_source` is
called with some buffer, as long as it has not said 0; the transfer may fail
at any point.  `payload_source` also tests for an empty buffer, a path that
`EmailAssumption` leaves out, as no buffer of libcurl is empty.  A plain line is known by the name of its field.  (The file
`main.cpp` is stored with typographic quotes and dashes in the place of `'` and
`--`; it is read as the program it was before.)

**`DigitStrings`** runs the test program: for a string, the three versions one
after the other, a turn of the loop per step.  `long`, `unsigned long` and
`short` have their widths as constants (`LongHalf`, `ShortHalf`); a signed
overflow may yield any value (`Signed`).  What a string says is a fold over its
characters (`Value`).  **`BitProcessor`** is the program
around `bp_is_bit_true`, `bp_set_bit_true`, `bp_set_bit_false` on an `int` of
`Width` bits, with `%hhu` read modulo `CharSize`; `&`, `|` and `~` are defined
on the positions that are 1 (`BitsOf`), and the int of a set of positions is
the one that has them (`FromBits`).  **`BalanceIndex`** reads
integers and runs `find_index`: the signed sum after, the unsigned sum before,
compared modulo `Modulus`.

**`LongPolling`** takes the command line of `dataInterface.php` apart:
`Head_n_1`, `OpenTmp` (the shell opens `data.tmp` for `sed`), `Sed_1d`, `Mv`,
`Echo`; `server.php` opens the file in one step and writes in another.  Whoever
has a file open keeps it when `mv` gives its name to another.  What happens
when two pages poll at the same moment is in the model, and in no promise:
`overlap` remembers it, as `raced` remembers what was written while a page
rewrote the file.  `Queue` is what was shown, what a page has in hand and what
is in the file, one behind the other; the property is about its order and its
elements, without the messages in `raced`.  The three commands succeed, once
they run: a `sed` or a redirection that fails, after which `&&` leaves `mv` out
and the same line is shown again, is not in the model.

**`Accounts`** has an action per SQL statement of `create`, `activate` and
`logIn`, each of which may fail and leave what the earlier ones did; a session
has one request at a time, because PHP locks it.  `createAnAccount` writes every
property of `$params` into the row, so that an account (`Account`) may bring
the state column, active, and the id column with it; with an id of its own it
leaves `LAST_INSERT_ID()` as it was, 0 in a new connection, and its code is of
no user.  `activateAccount` takes whatever it is given: `Codes` are those of all
rows, of rows whose mail failed too, and those of all mails.  `contested`
remembers the addresses that two requests were checking at once.  **`PcTracker`** has the
count and the insert of `register.php` as two steps; `disturbed` remembers that
they overlapped for two computers, or that an insert failed and used up an id.

**`Application`** is the executable of `gtp_library`.  The linker takes the
files of the link line and, of the static library, the members that something
refers to (`Linked`); their initialisers run in the order of that line
(`Precedes`), as the GNU linker has it: `todo` is what is still to be
initialised.  `application::run` calls what is
registered: `real_socket_test` as a server, with its `--client` branch as a
process that a user may start.  The stream between them is the count of pieces
on the way; a read takes any number of them, a write to a client that is gone
may succeed, and the reset that answers it may come later or never.

**`ImageCleaner`** has a key and the redraw that follows as one action, as in
`SftpPlayer`.  `Adjusted` is the window, `Shown` the slice of the list with
Python's negative indexes, `Bars` the slider as truncated floats allow it;
drawing outside the window raises an error and ends the program (`"failed"`).
Any terminal is taken to be wide enough.

**`PodmanExecutor`** has `manage.sh --start` as registering and running, and
`--stop` as stopping and unregistering, each of which may fail; then the three
scripts of a job.  Everything inside the runner's container ends with it.
`podman stop` fails only where there is no container to stop.

`MC_Programs` and `MC_WebSites` put modules that share nothing side by side:
which one runs is chosen at the start, and the rest of the state stays as it
is.  That what holds of a module holds there too is a theorem of its own
(`SitesOnTheServer`, `ProgramsOnTheirOwn`).  `MC_PeriodicRunner` is the one
other module that has its model as an instance, so that the proofs can have the
script next to the programs.

## 4. Runs

| Run | Instance | What it shows |
|---|---|---|
| `barrier` | 4 workers | mutual exclusion across `cv.wait`, an exact counter, no lost wakeup, refinement of `Rendezvous` with its liveness, `main` returns |
| `wrappers` | 2 connections, 2 wrappers, 3 addresses, 3 statements, one result per wrapper, `mysql_init` may fail | results have one owner, nothing is left that no object will free, and the wrappers implement `DatabaseInterface` |
| `programs` | arrays of up to 4 elements, `int` of 5 bits, strings of up to 5 characters; the three database programs, up to 3 rows, every call may fail; the executable; lists of up to 4 images on terminals of 4 to 9 lines; 2 jobs | the algorithms compute what they should; `detailed_query` never reads rows it does not have, and nothing leaks; what is registered runs, in the order of the link line; the highlighted row and the slider are where they belong; a job leaves nothing; the programs return, the executable too wherever its connection ends, unless it waits for a client for ever |
| `driver` | the executable | violated: a program runs, and the MySQL library was not initialised (section 6) |
| `fork` | both servers, 2 children, 2 clients, 2 addresses | zombies are reaped, connections stay private and are let go, one listener, no helper outlives its child |
| `runner` | 3 instances, 2 signals | a pid file has a live owner unless something was killed; the runner comes back after every other stop |
| `runner_one` | 2 instances | violated: two instances run at once (section 6) |
| `player` | folders of up to 3 tracks, terminal heights 3, 5, 6, 2 interrupts | visible cursor, marks stay on their tracks, no player is left, Esc stops a playlist |
| `cluster` | 2 control planes, 1 worker, 3 settings, 2 clusters | shared files agree, kubeconfigs are right, one cluster; `vagrant up` returns, unless it waits for ever for a metrics server that has nowhere to run |
| `cluster_longhorn` | the same | violated: no LongHorn without a dashboard (section 6) |
| `email` | attachments of up to 5 bytes, chunks of 3, unsigned int of 11 values | no overrun, all lines in order and once, the attachment decodes to the file |
| `web` | 2 posts and 2 pages; 2 sessions, 2 addresses, accounts that are active or bring an id, codes good for 1 of 2 hours; 2 computers with 2 addresses and 3 ids | the file is a queue for pages that do not overlap, and what is posted is shown; one account per address, codes that lead to no other address and work until they are too old; a computer is found under the number it was told |

Why the bounds are enough.  *Barrier*: one worker can be in each phase
(counting, asleep, woken, past) while another acts; four are needed for that.
*Wrappers*: two wrappers and three addresses let one wrapper's address be freed
and allocated again for the other; three statements let a result be pending
while an older one is held and one was dropped.  *Fork*: with two children,
deaths share a signal, one child dies while the handler runs for the other, and
the table is full; with two clients, a connection could be inherited by the
wrong child.  *Runner*: three instances, so that one starts while a second ends
and a third writes the file.  *Player*: three tracks do not fit in the bodies
of one and two lines that the heights give, so that the window moves in both
directions; a second interrupt falls into the `finally` block of the first.
*Cluster*: with two founded clusters, everything left over from the first meets
the second; a second control plane and a worker are the two ways to join.
*Mail*: five bytes have last groups of every length, and chunks of three cut
groups of four in every place, with remainders 1, 2 and, for an empty file, 0.
*Algorithms*: with 5 bits there are positions inside, at the sign and outside
an `int`, and `%hhu` wraps around at 16, below the largest number typed, 19;
five characters overflow a `short` of 8 values and, with zeros in front, the
power of ten long before the number leaves -16..15; running sums of -3..3 with
`Modulus` 16 have the ratio that 32-bit elements have to 2^64.  *Executable*:
its own files.  *Images*: of four, windows of 1, 2 and 3 rows show a part, and
heights below 7 leave none.  *Executor*: two jobs, of which the second meets
what the first left.  *Web*: two posts can merge into one line, and one can be
written while a page takes the other; two sessions are a race; an id that is brought may be taken, or be
the next one; three ids let one be lost.  Sessions and addresses of the login
system are interchangeable there (`SYMMETRY`): nothing else of the run knows
them, `MessagesAreShown`, the one liveness property, included.
`MaxRows`, `MaxQueries`, `MaxSignals`, `MaxInterrupts`, `MaxClusters`,
`Addresses`, `MaxUsers`, `MaxTime`, `MaxRegistrations`, `Posts`, `MaxCount`,
`MaxLength`, `MaxTyped` and `MaxImages` are the bounds on counters and inputs;
each is named in a guard or an initial state.

Deadlock is not checked where the code ends: `programs`, `fork` (the server
gives up when it cannot listen), `player`, `email`, `driver`, and `web`, where
every post was made and every page closed.

## 5. Fairness

- `CondVarBarrier`: weak fairness of each thread, and spurious wakeups that
  stop some day.  A mutex is not handed over fairly; the program does not need
  it, because every other step is taken finitely often.
- `MC_Programs`: the programs that wait for nobody go on (`MCStep`); the menu
  and the executor are up to their users.  Of the executable, server and client
  go through their statements, but a client does not have to come, and the
  network does not have to break: `ProgramsReturn` has `<>[]WaitsForClient` for
  the server that nobody visits, and nothing less than its end for one that
  somebody did.
- `LongPolling`: the loop of each page goes on.  Nobody has to post, and pages
  may be left at any time.
- `ForkServer`: processes that can run do, pending signals are delivered, a
  client that was accepted speaks or hangs up, the command `/bin/date` ends.
  Nothing makes clients arrive, nor `accept` or `fork` succeed.
- `PeriodicRunner`: cron starts the script again and again, processes run, the
  command returns.  `StaysAliveUnlessKilled` is about runs without SIGKILL:
  after one the pid file stays, and no instance starts any more.
- `SftpPlayer`: weak fairness of the interface's thread, strong fairness of
  reading a key, because a turn of the loop that reads a resize event instead
  disables it for a moment; a terminal that is resized in every single turn is
  excluded.  Nobody has to type and no track has to end.
- `ClusterUp`: commands end, with success or without; the loop that waits for
  the metrics server is the one that only its condition ends, so failing is not
  assumed there.  `UpReturns` names the one case in which it does not end: a
  dashboard is wanted and the taint is still there, while workers are brought
  up after the machine that waits.

## 6. Where code and documents disagree

- `crontab_second.sh` promises one instance; the test for the pid file and its
  creation are seven lines apart (run `runner_one`).
- A dashboard that is switched off as `settings.yml` says ends the provisioning
  of the control plane with `exit 0`, before LongHorn (run `cluster_longhorn`).

- `mysql_driver` "automatically initiates and ends the mysql library", by a
  static initialiser in `mysql_driver.cpp`.  That file is a member of a static
  library, and nothing refers to it, so that the linker leaves it out (run
  `driver`).  `mysql_init()` then initialises the library itself, and nobody
  ends it.

Also, not as runs of their own:

- `mysql_result_set::init` ignores a second result so as not to leak the first;
  it is the second that leaks.  `NoLeak` therefore assumes that a wrapper is
  used once, which the programs do.
- `fast_query` indexes the row of a query that may have failed (the label
  `"crash"` of `Fast` is reachable; `detailed_query` has no such path).
- `send()` of the mail program returns `CURLE_OK` when libcurl gave it no handle
  (`NoHandle`).
- `bp_is_bit_true_bad`, the first attempt that is kept beside its successor,
  answers -1 for the sign bit that is set (it is the mutant of `OneBitChanges`).
- Versions 1 and 2 of the digit reader count characters in a `short`;
  `DigitsAreRead` promises nothing of them for longer strings.
- That the registered program runs depends on the order of the link line, and
  so on `application.cpp` standing before the programs in `CMakeLists.txt` (the
  mutant `SourcesSorted` has it behind them).  C++ leaves the order of the files
  open; in another one the vector may be constructed after the registration and
  forget it.
- `manage.sh` hides that the taint could not be removed (`|| true`); with a
  dashboard wanted, the wait for the metrics server has no end then, as it has
  none when the settings keep the taint.
- `createAnAccount()` takes the state column from `$params`: an account can be
  active without a mail.  One that brings its id is mailed a code of user 0,
  which activates nobody.  If a code is opened and its row deleted before the
  request reads it for the mail, the link that is mailed opens nothing.
- A code whose mail failed (9) can still be opened by who can put it together.
- Two requests that create an account for one address at the same moment both
  find none; then `logIn()` finds two rows and lets nobody in.  Two computers
  that register at the same moment are told the same number.  Two pages that
  poll at the same moment may show a message twice or lose one, and a message
  written while a page rewrites the file is lost.
- `logIn()` does not ask whether the account was activated.
- The image cleaner fails on terminals of fewer than seven lines: slices with a
  negative end, or a summary that is longer than the window.
- `manage.sh --start` registers the runner every time, also if a registration
  was left by a start that failed or a container that ended; `--stop` removes
  one.  When the container of a job has ended by itself, `podman stop` in
  `cleanup.sh` fails and the directory of the job stays.

## 7. What is proved, what is only checked, what is left out

### Proved, for every value of the constants

| Module | Theorems | Argument |
|---|---|---|
| `CondVarBarrierProofs` | `TypeCorrect`, `MutexesExclude`, `CounterCorrect`, `WakeupsReach`, `SafetyRefinement` | `IInv`: types, owners, exact counter, no lost wakeup, and `PassedMeansFull` (who is past `cv.wait` saw `c = Target`), which the refinement of `Pass` needs and the others do not say |
| `MysqlWrappersProofs` | `OneOwner`, `DestructorCloses`, `InterfaceImplemented`; with `Reuse = FALSE` `NoLeak`, `RowsAreRight` | `Typed` (the type invariant without the bounds), then each property on top of `ResultsHaveOneOwner`: only an owner's rows can be reached, so an address that is free can be given out again; what the interface shows of an object depends on its own handle and its own result (`ConnectionView` and its like), so that each call maps to a call of `DatabaseInterface` or to a stutter |
| `ForkServerProofs` | `TypeCorrect`, `AnnouncedAlways`, `PrivateAlways`, `HelperAlways`, `ListenerAlways` | a death sets the parent's pending bit, and the handler ends only when there is no zombie; `PrivateInv` adds that the dead have no descriptors; `HelperInv`: a helper exists only between `popen` and `pclose`; `SetupInv`: the one socket is that of the current address |
| `SftpPlayerProofs` | `IndexAlways`, `ShownAlways`, `MarksAlways`, `LeftAlways` | `ListInv`: the cursor is a position of the list and inside the window (`InWindow`), which `EnsureVisible` establishes from any offset; for the player, what each point of the interface knows about the process |
| `ClusterUpProofs` | `FilesAlwaysAgree`, `KubeconfigAlways`, `KindAlways`, `OneClusterAlways` | `FilesInv`: between `Clean` and the last file, only files of the founder's cluster exist; `MachineInv`: what each step of the script knows of its machine, with the arithmetic of addresses as lemmas; `ClusterInv`: members are all of the latest cluster, and there are none without the first control plane |
| `CurlEmailProofs` | `OverrunNever`, `WholeAlways`, `AttachmentArrivesAlways` | `MsgInv`: every line fits every buffer, since a chunk is no longer than `chunk_size` and the encoding is a sequence of characters (`EncodingIsSeq`); `SentInv`: what was sent are the first `lines_read` lines; the attachment see below |
| `WebSitesProofs` | `AccountsType`, `CodesServe`, `MailedCodes`, `OneAccount`, `LatestAddress`, `QueueAlways`, `SitesOnTheServer` | see below |
| `ProgramsProofs` | `IndexAlways`, `JobsAlwaysLeave`, `MenuAlwaysFits`, `ProgramsStoreOnce`, `ProgramsLeaveNothing`, `DetailedIsSafe`, `ProgramAlwaysRuns`, `DigitsAlwaysRead`, `OneBitAlwaysChanges`, `ProgramsOnTheirOwn`, `OwnerAlways` | see below |

What a recursive definition computes is shown by induction over numbers, and the
library's theorems of induction take an operator, which the provers cannot
instantiate.  So induction is a lemma about sets (`SetInduction`: a set of
numbers with 0 and with the successor of each member is `Nat`), which follows
from the smallest interval that reaches a number outside, since finite sets are
well-founded.  That a recursive function exists is such an induction as well
(`JoinExists`, `ReadExists`, `PowersExist`): a piece of it can be continued.

`CurlEmailProofs`, the attachment: four characters hold three octets
(`DecodeOfEncode`, group by group, with the last group of one or two octets);
joining the chunks is a function on their number (`FlattenIsJoin`), and joining
one chunk more appends it (`FlattenAppend`).  `AttachInv`: the lines cut so far hold
the first `i` characters of the encoding; the other lines of the
message hold no data (`FieldsHoldNothing`).  So it holds for chunks of any length,
for files of any length whose encoding an unsigned int can count, and for any
place where a chunk ends.

`WebSitesProofs`, for any number of requests, accounts, addresses, computers,
messages and pages:

- *Login system.*  `CodesInv` follows a code through the tables and the requests:
  rows of the table belong to one user each (`RowsAreDistinct`); a user or a row
  that a request has just inserted is known to nobody else (`UsersAreNew`,
  `CodesAreNew`), whatever other requests insert meanwhile and whatever ids they
  bring; what a request or an activation has read is or was a row
  (`CodesAreRows`).  `AddressesInv`: a request that has
  found an address free and not yet inserted it is the only one, and still
  right, unless the address is contested.
- *Tracker.*  As long as nothing was disturbed, the rows are numbered without a
  gap (`RowsAreNumbered`), so that the count is the next id.
- *Long polling.*  `Quiet` holds until two pages are at the file at once.  What
  was lost to a rewrite is in the file only while that rewrite goes on
  (`FileIsWhole`), and then only in the rest of the line that `head` has read
  (`RacedInLine`), so that what `sed` writes is the queue behind the line in
  hand (`CopyIsQueue`).  `InOrder` and `Good` have lemmas of their own for each
  thing that happens to a queue: it grows, loses its middle, is cut.  That a
  file with a line end has a first one is an induction.

`ProgramsProofs`:

- *Balance index.*  The loop invariant: `sum_before` is congruent to the sum in
  front, `sum` is the sum behind, no earlier index balances; numbers that are
  congruent and less than the modulus apart are equal.
- *Executor.*  `JobInv`: there is one job at most, only it has a container, and
  a directory is its own or one that `cleanup.sh` gave up.
- *Image cleaner.*  `MenuInv` places the highlighted row in the list; that the
  slider stays on its track is arithmetic of truncated quotients
  (`SliderIsShort`, `SliderOnTrack`).
- *Database programs.*  `HeldInv` gives, for each result wrapper, the labels of
  the three tables at which it may have a result; no label that stores into it
  is among them.  So the programs refine the wrappers of the run `wrappers`, in
  which a wrapper stores once (`ProgramsStoreOnce`: the specification with
  `Reuse` FALSE, of which `NoLeak` is a theorem), and with that
  `ProgramsLeaveNothing`.  `LooksInv` adds what `detailed_query` knows of its
  rows when it looks at them.
- *Executable.*  `ApplicationInv`: the vector is constructed before the
  registration that is to go into it.
- *Strings of digits.*  A character more is a digit more or nothing
  (`ValueAppend`), so that the value of a prefix is no larger than that of the
  string (`Prefixes`): a string that fits never overflows on the way.
  `Forwards`: versions 2 and 3 hold the value of what they have read.
  `Backwards`: the value of the string is that of the characters version 1 has
  not reached, times a power P of ten, plus `number`; `pow_of_ten` is P modulo
  its width.  If P has overflown, a string that fits has only zeros left, so
  that the wrong power does no harm.
- *Bits.*  The bit at p of any integer, a negative one too, is the parity of its
  quotient by 2^p (`BitsAre`).  Adding 2^p where the bit is 0 changes this bit
  only: lower quotients change by an even number (`AddHigher`), higher ones do
  not change (`AddLower`), and the last bit is the sign (`SignIs`).  Ints with
  the same bits are the same (`SameBits`), so that `&`, `|` and `~` with one
  bit are additions of its weight (`SetBitTrue`, `SetBitFalse`, `IsBitTrue`).
  `BitInv`: what was shown says which of the three ints `value` is.
- *Periodic runner.*  `FileHasOwner` is inductive with the type of `at`.

Assumptions are those named in the modules.  Three carry weight:
`EmailAssumption` (a buffer of libcurl has room for a chunk and its line end,
and the encoded file with one more chunk does not exceed an unsigned int: files
"of any length" are those whose encoding has less than 4 GiB),
`ClusterAssumption` (there is at least one control plane) and `BalanceAssumption` (three
running sums are less than the modulus: fewer than 2^31 elements of 32 bits add
up to less than 2^62, and the modulus is 2^64).

### Only model-checked

Liveness, everywhere, since TLAPS reaches neither it nor ENABLED:
`EveryZombieIsReaped`, `EveryClientIsLetGo`, `MainReturns`,
`StaysAliveUnlessKilled`, `EscStops`, `UpReturns`, `MessagesAreShown`,
`ProgramsReturn` and `ImplementsRendezvous`, of which `SafetyRefinement` is the
part without fairness.  Type invariants that a proof carries only in a
weaker form (`Typed`, `ListTyped`).  Of the two pages that are at the file at
once, and of all that section 6 lists, nothing is promised.

### Not modelled

What each model leaves out of its own component: passwords, texts and output
formats; in `ForkServer` the contents of the conversation; in `SftpPlayer`
colours, downloads inside the player, the sftp commands (a listing is what they
return); in `ClusterUp` the installation of packages and what happens inside
Kubernetes, and signals to the script; in `PeriodicRunner` a signal that
arrives while a trap runs; in the PHP sites the text of pages and mails; in
`ImageCleaner` the width of the terminal; in `PodmanExecutor` the contents of
directories, several operators at once and several jobs at once (the runner
takes one by default).  Memory that cannot be allocated is modelled only
where the code looks at it.

Some theorems state what no run checks any more, since a deeper property
covers it: `AnnouncedAlways` (with `EveryZombieIsReaped`), `KindAlways` (with
`OneCluster`), `IndexAlways` of the player (with `CursorIsShown`),
`DestructorCloses` and `RowsAreRight` of the wrappers (with `NothingLeaks` and
`ImplementsInterface`), and the counter of the barrier (with `MainReturns`).

Components without a model: the gRPC pair, the socket client and the key reader
(one call each, or a loop over one); the pins (two synchronous
calls between two pins in the demo and in the test; `pin.hpp` says that
`handle_value` calls the handler "if it is set", `pin.cpp:24` calls it always,
which no program of the repository meets); the KMS cryptor (conversion of text); the
file server and the peer streams (events in the order of a library); the
netboot gateway, the Ceph script and the shell scanners (straight sequences of
commands without state of their own); the Pascal programs and Flash demos
(drawing), the HTML framework (string building), configuration and vendored
build files.
