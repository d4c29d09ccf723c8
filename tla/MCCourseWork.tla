---------------------------- MODULE MCCourseWork ----------------------------
(* Two tabs, two lessons, one quiz with a single attempt. *)
EXTENDS CourseWork
CONSTANTS l1, l2

MCLessons == {l1, l2}
=============================================================================
