------------------------------ MODULE Accounts ------------------------------
(***************************************************************************)
(* UsersController, SessionsController and the User model: signing up and  *)
(* logging in, the two requests that carry no token and are given one.     *)
(***************************************************************************)
EXTENDS Handler

CONSTANT MaxUsers   \* bound: no sign-up goes on once users gave out this many ids

ASSUME MaxUsersAssumption == MaxUsers \in Nat

\* bad_role: a role the enum does not know, which raises when it is assigned.
\* image: the form carries a file.
SignUpRequest ==
    [op: {"sign_up"}, form: Form \cup {"bad_role"},
     username: Username, password: Password, role: {"user", "admin"}, image: BOOLEAN]

LoginRequest == [op: {"login"}, username: Username, password: Password]
-----------------------------------------------------------------------------
(* UsersController#create. *)

\* No before_action; an error in user_params or User.new comes before any statement.
SignUpAccept(w) ==
    \E r \in Offered :
        /\ r.op = "sign_up"
        /\ \/ r.form = "absent" /\ Refuse(w, r, 400)
           \/ r.form = "bad_role" /\ Refuse(w, r, 500)
           \/ /\ r.form \notin {"absent", "bad_role"}
              /\ db.seq.users < MaxUsers
              /\ Load(w, r, NoRow)

\* uniqueness of the username, for a new record
UsernameFree(d, username) == \A u \in d.users : u.username # username

SignUpCheck(w) ==
    /\ pc[w] = "check"
    /\ req[w].op = "sign_up"
    /\ IF req[w].form = "valid" /\ UsernameFree(db, req[w].username)
       THEN Proceed(w) ELSE Reject(w, 422)

\* The row of a new account.
Account(d, r) ==
    [id       |-> d.seq.users + 1,
     username |-> r.username,
     password |-> r.password,
     role     |-> r.role]

\* Mutant: the INSERT is not in the transaction of the validations.
SignUpWriteAfresh(w) ==
    /\ pc[w] = "write"
    /\ req[w].op = "sign_up"
    /\ LET new == Account(db, req[w])
       IN  ExecuteAfresh(w, InsertUser(db, new), new)

SignUpWrite(w) ==
    /\ pc[w] = "write"
    /\ req[w].op = "sign_up"
    /\ LET new == Account(view[w], req[w])
       IN  Execute(w, InsertUser(view[w], new), new)

\* The token holds the id the INSERT gave.
SignUpRender(w) ==
    /\ pc[w] = "render"
    /\ req[w].op = "sign_up"
    /\ Render(w, 201)
-----------------------------------------------------------------------------
(* SessionsController#create. *)

\* find_by, then authenticate against the digest that was read.
LoginAccept(w) ==
    \E r \in Offered :
        /\ r.op = "login"
        /\ \/ UsernameFree(db, r.username) /\ Refuse(w, r, 401)
           \/ \E u \in db.users :
                /\ u.username = r.username
                /\ IF u.password = r.password THEN Load(w, r, u) ELSE Refuse(w, r, 401)

\* The token holds the id of the user that was read.
LoginRender(w) ==
    /\ pc[w] = "check"
    /\ req[w].op = "login"
    /\ Render(w, 200)
=============================================================================
