------------------------------- MODULE MCBot --------------------------------
(* Instances of Bot for TLC: a private chat and a group, one link. *)
EXTENDS Bot

private == "private"
group   == "group"
link    == "link"
word    == "word"

From(c, texts) == {[chat |-> c, text |-> t] : t \in texts}

(* A private chat and a group in the middle of their dialogues at once. *)
DialogueInputs ==
  From(private, {<<"/start">>, <<"/track", link>>, <<"/untrack", link>>})
  \cup From(group, {<<"/start">>, <<"/track", link>>, <<word>>})

(* One private chat with every command and a message without text. *)
CommandInputs ==
  From(private, {<<"/start">>, <<"/track", link>>, <<"/track", word>>, <<"/untrack", link>>,
                 <<"/list">>, <<"/listbytags", word>>, <<"/deletetag", word>>, <<>>})

(* The user also edits a message. *)
EditingInputs == From(private, {<<"/start">>, <<"/list">>}) \cup {NoMessage}
=============================================================================
