------------------------------- MODULE Commands -------------------------------
(* The command interface of zingolib (commands.rs): for every command the       *)
(* numbers of arguments it accepts, those that make it panic, and what it does. *)
(* What it prints, and how it parses the words of an argument, is left out: an  *)
(* argument that does not parse is an answer that changes nothing.              *)
EXTENDS Naturals, TLC

\* Any number of arguments, up to the most a line of the model has.
AnyArgs == 0 .. 4

Row(ok, does) == [ok |-> ok, dies |-> {}, does |-> does]
Answer(ok) == Row(ok, "answer")

\* GetVersionCommand .. WalletKindCommand
BuildAndServer ==
  [version |-> Answer(AnyArgs), changeserver |-> Row({1}, "setting"),
   get_birthday |-> Answer(AnyArgs), wallet_kind |-> Answer(AnyArgs)]

\* InterruptCommand, ParseAddressCommand
InterruptAndParse ==
  [interrupt_sync_after_batch |-> Row({1}, "interrupt"), parse_address |-> Answer({1})]

\* ParseViewKeyCommand, SyncCommand, SyncStatusCommand
ViewKeyAndSync ==
  [parse_viewkey |-> Answer({1}), sync |-> Row(AnyArgs, "sync"), syncstatus |-> Answer(AnyArgs)]

\* SendProgressCommand, RescanCommand, ClearCommand, HelpCommand
RescanAndHelp ==
  [sendprogress |-> Answer(AnyArgs), rescan |-> Row(AnyArgs, "rescan"), clear |-> Row(AnyArgs, "clear"),
   help |-> Answer({0, 1})]

\* parse_spendable_balance_args: an address or a JSON object; a second argument is
\* accepted and not looked at.
SpendableArgs == 1 .. 2

\* InfoCommand .. AddressCommand: spendablebalance reads its first argument
\* before it knows that there is one.
InfoAndBalance ==
  [info |-> Answer(AnyArgs), updatecurrentprice |-> Row(AnyArgs, "setting"), balance |-> Answer(AnyArgs),
   spendablebalance |-> [Answer(SpendableArgs) EXCEPT !.dies = {0}], addresses |-> Answer(AnyArgs)]

\* ExportUfvkCommand, EncryptMessageCommand, DecryptMessageCommand: one argument of
\* encryptmessage is JSON, and an "address" or a "memo" that is no string panics.
KeysAndMessages ==
  [exportufvk |-> Answer(AnyArgs), encryptmessage |-> [Answer({1, 2}) EXCEPT !.dies = {1}],
   decryptmessage |-> Answer({1})]

\* parse_send_args: a JSON array, or an address, an amount and perhaps a memo.
SendArgs == 1 .. 3
\* parse_send_all_args: an address or a JSON object, or an address and a memo.
SendAllArgs == 1 .. 2

\* SendCommand, SendAllCommand
Propose == [send |-> Row(SendArgs, "propose"), sendall |-> Row(SendAllArgs, "propose")]

\* QuickSendCommand, ShieldCommand
QuickAndShield == [quicksend |-> Row(SendArgs, "quick"), shield |-> Row({0}, "propose")]

\* QuickShieldCommand, ConfirmCommand, DeleteCommand
ConfirmAndDelete ==
  [quickshield |-> Row({0}, "quick"), confirm |-> Row({0}, "confirm"), delete |-> Row(AnyArgs, "delete")]

\* SeedCommand .. MemoBytesToAddressCommand
SeedAndTransactions ==
  [seed |-> Answer(AnyArgs), valuetransfers |-> Answer({0}), transactions |-> Answer({0}),
   detailed_transactions |-> Answer({0}), memobytes_to_address |-> Answer({0, 1})]

\* ValueToAddressCommand, SendsToAddressCommand, SetOptionCommand
TotalsAndSetOption ==
  [value_to_address |-> Answer({0, 1}), sends_to_address |-> Answer({0, 1}),
   setoption |-> Row({1}, "setting")]

\* GetOptionCommand .. NewAddressCommand
OptionAndAddress ==
  [getoption |-> Answer({1}), height |-> Answer(AnyArgs), defaultfee |-> Answer({0, 1}),
   new |-> Row({1}, "setting")]

\* NotesCommand, QuitCommand, DeprecatedNoCommand
NotesAndQuit == [notes |-> Answer({0, 1}), quit |-> Answer(AnyArgs), save |-> Answer(AnyArgs)]

get_commands ==
  BuildAndServer @@ InterruptAndParse @@ ViewKeyAndSync @@ RescanAndHelp @@ InfoAndBalance
    @@ KeysAndMessages @@ Propose @@ QuickAndShield @@ ConfirmAndDelete @@ SeedAndTransactions
    @@ TotalsAndSetOption @@ OptionAndAddress @@ NotesAndQuit

\* to_ascii_lowercase, on the one name the command loop compares without it.
Lowercase(cmd) == IF cmd = "QUIT" THEN "quit" ELSE cmd

\* do_user_command: what a line does; nothing for an unknown command or for a
\* number of arguments it does not accept.
Does(line) ==
  LET cmd == Lowercase(line.cmd) IN
  IF cmd \in DOMAIN get_commands /\ line.args \in get_commands[cmd].ok
  THEN get_commands[cmd].does ELSE "answer"

MayPanic(line) ==
  LET cmd == Lowercase(line.cmd) IN
  cmd \in DOMAIN get_commands /\ line.args \in get_commands[cmd].dies
=============================================================================
