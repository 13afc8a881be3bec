----------------------------- MODULE ChatHandlers -----------------------------
(***************************************************************************)
(* The handlers of the chat (src/src/logic): the table of commands that    *)
(* build.rs generates, and for every handler the script of what it does in *)
(* the chat.  A step "ask" stands for all that may fail up to the next     *)
(* message, "collect" for messages that wait for the end of the handler,   *)
(* "send" for a message that is sent at once and whose failure ends the    *)
(* handler, "try" for calls whose failure is dropped.                      *)
(***************************************************************************)
EXTENDS Naturals, Sequences, FiniteSets

\* A command: the length of its function's name, its words and their lengths.
Cmd(len, words) == [len |-> len, words |-> words]

Commands == [
    login |-> Cmd(5, {"login"}), logout |-> Cmd(6, {"logout"}),
    login_pwd |-> Cmd(9, {"loginpwd"}), logout_pwd |-> Cmd(10, {"logoutpwd"}),
    sign |-> Cmd(4, {"sign"}), sign_time |-> Cmd(9, {"signtime"}), sign_api |-> Cmd(8, {"signapi"}),
    del_sign_time |-> Cmd(13, {"delsigntime"}), auto_sign |-> Cmd(9, {"autosign"}),
    spec_sign |-> Cmd(9, {"specsign"}), push_sign |-> Cmd(9, {"pushsign", "push"}),
    test |-> Cmd(4, {"test"}), test_ans |-> Cmd(8, {"testans"}), get_test |-> Cmd(8, {"gettest"}),
    class |-> Cmd(5, {"class"}), get_class |-> Cmd(9, {"getclass"}),
    download |-> Cmd(8, {"download"}), timetable |-> Cmd(9, {"timetable"}),
    jdpm |-> Cmd(4, {"jdpm"}), setpwd |-> Cmd(6, {"setpwd"}), flushvpn |-> Cmd(8, {"flushvpn"}),
    status |-> Cmd(6, {"status"}), github |-> Cmd(6, {"github"}), echo |-> Cmd(4, {"echo"}),
    help |-> Cmd(0, {"help"})]  \* appended after the sorted ones

Words == UNION {Commands[c].words : c \in DOMAIN Commands}

\* The words a word starts with.
Starts == [w \in Words |-> {w} \cup
    CASE w \in {"signtime", "signapi"} -> {"sign"}
      [] w = "loginpwd" -> {"login"}
      [] w = "logoutpwd" -> {"logout"}
      [] w = "testans" -> {"test"}
      [] w = "pushsign" -> {"push"}
      [] OTHER -> {}]

\* The other handlers, by the type of the events they are for.
Others == [Message |-> {"qr_sign", "emoji_mirror"},
           Notice |-> {"poke", "emoji_follow"},
           Request |-> {"friend_add"}]

-----------------------------------------------------------------------------
Then(S, T) == {s \o t : s \in S, t \in T}
Answer == {<<"ask", "collect">>}

\* process_login: a password on record, or a code that is sent at once; then
\* who the user is, and his title in the group.
process_login == {<<"ask", "collect">>, <<"ask", "send", "ask", "collect", "ask", "collect", "ask">>}
get_client_or_err == {<<"ask">>} \cup process_login
process_login_castgc == {<<"ask">>} \cup process_login

login == {<<"ask", "collect">>} \cup process_login \cup Then({<<"ask", "collect">>}, process_login)
logout == Answer
login_pwd == {<<"ask", "collect">>, <<"ask", "send", "ask", "collect", "ask", "collect">>}
logout_pwd == Answer
sign == Then(get_client_or_err, Answer)
auto_sign == Then(get_client_or_err, Answer)
spec_sign == Then(get_client_or_err, Answer)
push_sign == {<<"ask", "collect", "collect">>}
sign_time == Then({<<"ask">>}, Then(process_login_castgc, {<<"ask", "collect", "collect", "collect">>}))
del_sign_time == Answer
sign_api == {<<"collect">>}
\* Nothing is said when there is nothing to list.
test == Then(get_client_or_err, {<<"ask">>, <<"ask", "collect">>})
class == Then(get_client_or_err, {<<"ask">>, <<"ask", "collect">>})
\* The questions, the link at once, and then the page is rendered ...
get_test == Then(get_client_or_err, {<<"ask", "try", "send", "ask">>})
test_ans == Then(get_client_or_err, {<<"ask", "try", "send", "ask">>})
\* ... or the link only after it was.
get_class == Then(get_client_or_err, {<<"ask", "collect", "collect", "ask">>})
download == Then(get_client_or_err, {<<"ask", "collect", "ask">>})
timetable == Then(process_login_castgc, Answer)
jdpm == Then(process_login_castgc, Answer)
setpwd == Answer
flushvpn == {<<"ask", "collect", "ask", "collect">>}
status == Answer
github == {<<"collect">>}
echo == {<<"collect">>}
help == {<<"collect">>}

qr_sign == {<<>>, <<"collect", "collect">>, <<"send", "collect", "collect">>}
emoji_mirror == {<<>>, <<"try">>}
emoji_follow == {<<>>, <<"try">>}
poke == {<<>>, <<"send">>}
friend_add == {<<>>, <<"try">>}

Scripts == [login |-> login, logout |-> logout, login_pwd |-> login_pwd, logout_pwd |-> logout_pwd,
            sign |-> sign, auto_sign |-> auto_sign, spec_sign |-> spec_sign, push_sign |-> push_sign,
            sign_time |-> sign_time, del_sign_time |-> del_sign_time, sign_api |-> sign_api,
            test |-> test, class |-> class, get_test |-> get_test, test_ans |-> test_ans,
            get_class |-> get_class, download |-> download, timetable |-> timetable, jdpm |-> jdpm,
            setpwd |-> setpwd, flushvpn |-> flushvpn, status |-> status, github |-> github,
            echo |-> echo, help |-> help, qr_sign |-> qr_sign, emoji_mirror |-> emoji_mirror,
            emoji_follow |-> emoji_follow, poke |-> poke, friend_add |-> friend_add]
=============================================================================
